---- MODULE Spec2Model ----
(***************************************************************************)
(* A model of the Gemini Git Agent frontend (React components under        *)
(* GeminiGitAgent/frontend/src): the unified-diff parser and renderer of   *)
(* DiffViewer.jsx and the porcelain-status parser of StatusFeed.jsx.       *)
(*                                                                         *)
(* Text is modelled by TLA+ strings; a character is a string of length 1.  *)
(* JavaScript's null is Null (the empty tuple) and a present value v is    *)
(* Some(v) (a 1-tuple), so that null is never confused with 0 or "".       *)
(***************************************************************************)
EXTENDS Integers, Sequences, FiniteSets, Bags, TLC

VARIABLES
    \* ---- one call of parseDiff (DiffViewer.jsx:95-164) ----
    diffText,      \* the argument
    lines,         \* diffText.split('\n')
    i,             \* the loop index, 1-based (the code's i + 1)
    result,        \* the hunks pushed so far
    currentHunk,   \* 0 for null, else the index in result of the hunk it aliases
    oldLineNum,
    newLineNum,
    pdPc,          \* "call" | "loop" | "done" | "threw"
    \* ---- one call of parseStatus (StatusFeed.jsx:18-33) ----
    raw,           \* the argument
    files,         \* the returned entries
    psPc,          \* "call" | "done"
    \* ---- the DiffViewer component (DiffViewer.jsx:6-93, 166-297) ----
    filePath,      \* the prop
    diff,
    fileContent,
    loading,
    error,
    isNewFile,
    isDeleted,
    loads,         \* the loadData() invocations in flight
    selects,       \* how many times the prop has changed (bounded)
    \* ---- the App component (App.jsx:14-251) ----
    repoPath,
    statusData,    \* Null or Some(payload)
    polling,
    lastStatusRef, \* Null or Some(status)
    isUpdatingRef,
    fileRefreshTrigger, \* fileRefreshTriggerRef.current and the state set from it
    polls,         \* the poll() invocations in flight
    updates,       \* the handleManualUpdate invocations in flight
    setRepos,      \* the setRepo invocations waiting for POST /set-repo
    calls,         \* how many times a control or the interval has called in (bounded)
    \* ---- the GitControls component (unnamed/part_001:6-191) ----
    currentBranch,
    dirty,         \* whether the repository has uncommitted changes
    switchBranchDialog, \* Null or Some(branchName)
    changeOption,  \* "stash" | "bring"
    switchingBranch,
    gcError,       \* Null or Some(message)
    checks,        \* the handleSwitchBranch invocations waiting for GET /has-changes
    switches,      \* the POST /branch/switch requests in flight
    choices,       \* how many times a branch was chosen (bounded)
    \* ---- the StatusFeed component (StatusFeed.jsx:6-334) ----
    sfStatus,      \* the prop data.status
    selectedFiles, \* the Set, as the sequence of its paths in insertion order
    selectionAnchor, \* Null or Some(path)
    contextMenu,   \* Null or Some(path of the file it was opened on)
    stagedFiles,
    sfEffects,     \* the effects of the last render still to run: "none" | "cleanup" | "both"
    sfRender,      \* a state update has scheduled a re-render
    batches,       \* the stageFiles / unstageFiles calls waiting for their requests
    refreshes,     \* how many times onFileReverted was called
    sfCalls,       \* how many batches were started (bounded)
    \* ---- the ChatInterface component (README.md:466-538) ----
    messages,
    input,
    chatLoading,   \* the component's loading
    abortControllerRef, \* Null or Some(id of the controller)
    chats,         \* the POST /chat requests whose continuation has not run
    sends,         \* how many messages were sent (bounded)
    \* ---- the Settings component's handleTestAndSave (Settings.jsx:6-170) ----
    newKey,
    testing,
    saving,
    stError,       \* the component's error
    warning,
    success,
    stPc,          \* "idle" | "test" | "save" | "model" | "resave" | "fetch"
    testResult,    \* Null or Some(what the test endpoint answered in this run)
    saves,         \* the POST /config/gemini-key requests sent
    runs           \* how many times the handler was started (bounded)

pdVars == <<diffText, lines, i, result, currentHunk, oldLineNum, newLineNum, pdPc>>
psVars == <<raw, files, psPc>>
dvVars == <<filePath, diff, fileContent, loading, error, isNewFile, isDeleted, loads, selects>>
appVars == <<repoPath, statusData, polling, lastStatusRef, isUpdatingRef, fileRefreshTrigger,
             polls, updates, setRepos, calls>>
gcVars == <<currentBranch, dirty, switchBranchDialog, changeOption, switchingBranch, gcError, checks, switches, choices>>
sfVars == <<sfStatus, selectedFiles, selectionAnchor, contextMenu, stagedFiles, sfEffects, sfRender, batches, refreshes, sfCalls>>
chatVars == <<messages, input, chatLoading, abortControllerRef, chats, sends>>
stVars == <<newKey, testing, saving, stError, warning, success, stPc, testResult, saves, runs>>
vars == <<pdVars, psVars, dvVars, appVars, gcVars, sfVars, chatVars, stVars>>

Null == <<>>
Some(v) == <<v>>

Min(a, b) == IF a < b THEN a ELSE b
Max(a, b) == IF a > b THEN a ELSE b

(***************************************************************************)
(* JavaScript string primitives.                                           *)
(***************************************************************************)

\* s[k] for a 0-based k; "" stands for undefined (out of range).
CharAt(s, k) == IF k >= 0 /\ k < Len(s) THEN SubSeq(s, k + 1, k + 1) ELSE ""

\* s.startsWith(p)
StartsWith(s, p) == Len(s) >= Len(p) /\ SubSeq(s, 1, Len(p)) = p

\* s.endsWith(p)
EndsWith(s, p) == Len(s) >= Len(p) /\ SubSeq(s, Len(s) - Len(p) + 1, Len(s)) = p

\* s.slice(from, to) with 0-based from and exclusive to; a negative index counts
\* from the end, and both are clamped to the string.
Slice(s, from, to) ==
    LET f == IF from < 0 THEN Max(Len(s) + from, 0) ELSE Min(from, Len(s))
        t == IF to < 0 THEN Max(Len(s) + to, 0) ELSE Min(to, Len(s))
    IN  IF f >= t THEN "" ELSE SubSeq(s, f + 1, t)

\* s.slice(from) and s.substring(from) for from >= 0
SliceFrom(s, from) == Slice(s, from, Len(s))

\* The 0-based index of the first "\n" of s at or after k, or Len(s) if none.
RECURSIVE NextNewline(_, _)
NextNewline(s, k) ==
    IF k >= Len(s) THEN Len(s)
    ELSE IF CharAt(s, k) = "\n" THEN k
    ELSE NextNewline(s, k + 1)

\* s.split('\n'): always at least one element; a trailing "\n" gives a last "".
RECURSIVE SplitFrom(_, _)
SplitFrom(s, k) ==
    LET e == NextNewline(s, k)
    IN  IF e >= Len(s) THEN <<Slice(s, k, Len(s))>>
        ELSE <<Slice(s, k, e)>> \o SplitFrom(s, e + 1)

SplitLines(s) == SplitFrom(s, 0)

Digits == {"0", "1", "2", "3", "4", "5", "6", "7", "8", "9"}

DigitValue(c) ==
    CASE c = "0" -> 0 [] c = "1" -> 1 [] c = "2" -> 2 [] c = "3" -> 3 [] c = "4" -> 4
      [] c = "5" -> 5 [] c = "6" -> 6 [] c = "7" -> 7 [] c = "8" -> 8 [] c = "9" -> 9

\* parseInt of a string of decimal digits
RECURSIVE ParseInt(_)
ParseInt(s) ==
    IF Len(s) = 0 THEN 0
    ELSE 10 * ParseInt(Slice(s, 0, Len(s) - 1)) + DigitValue(CharAt(s, Len(s) - 1))

\* \d+ at the 0-based index k: the index after the longest run of digits from k
\* (k itself when s[k] is no digit).
RECURSIVE DigitsEnd(_, _)
DigitsEnd(s, k) == IF CharAt(s, k) \in Digits THEN DigitsEnd(s, k + 1) ELSE k

\* (?:,(\d+))? at k: the index after the optional group. What follows the group
\* in the pattern is a space, so a "," without digits leaves the group unmatched.
OptCountEnd(s, k) ==
    IF CharAt(s, k) = "," /\ DigitsEnd(s, k + 1) > k + 1 THEN DigitsEnd(s, k + 1) ELSE k

\* /@@ -(\d+)(?:,(\d+))? \+(\d+)(?:,(\d+))? @@/ tried at the 0-based index k:
\* Null, or Some of the groups 1 and 3.
HeaderMatchAtCountsRequired(s, k) ==
    LET a == k + 4
        b == DigitsEnd(s, a)
        c == OptCountEnd(s, b)
        d == c + 2
        e == DigitsEnd(s, d)
        f == OptCountEnd(s, e)
    IN  IF /\ Slice(s, k, a) = "@@ -"
           /\ b > a /\ c > b
           /\ Slice(s, c, d) = " +"
           /\ e > d /\ f > e
           /\ Slice(s, f, f + 3) = " @@"
        THEN Some(<<Slice(s, a, b), Slice(s, d, e)>>)
        ELSE Null

HeaderMatchAt(s, k) ==
    LET a == k + 4
        b == DigitsEnd(s, a)
        c == OptCountEnd(s, b)
        d == c + 2
        e == DigitsEnd(s, d)
        f == OptCountEnd(s, e)
    IN  IF /\ Slice(s, k, a) = "@@ -"
           /\ b > a
           /\ Slice(s, c, d) = " +"
           /\ e > d
           /\ Slice(s, f, f + 3) = " @@"
        THEN Some(<<Slice(s, a, b), Slice(s, d, e)>>)
        ELSE Null

\* line.match(...): the pattern is not anchored, so the leftmost match counts.
RECURSIVE HeaderMatchFrom(_, _)
HeaderMatchFrom(s, k) ==
    IF k >= Len(s) THEN Null
    ELSE IF HeaderMatchAt(s, k) # Null THEN HeaderMatchAt(s, k)
    ELSE HeaderMatchFrom(s, k + 1)

HeaderMatch(s) == HeaderMatchFrom(s, 0)

(***************************************************************************)
(* parseDiff, one loop iteration at a time.                                *)
(***************************************************************************)

\* DiffViewer.jsx:108
IsHeaderLine(line) ==
    \/ StartsWith(line, "diff --git")
    \/ StartsWith(line, "index ")
    \/ StartsWith(line, "---")
    \/ StartsWith(line, "+++")

\* The branch of the loop body a line takes (the if/else-if chain of lines
\* 108-159), given whether currentHunk is set.
LineKindNoSkip(line, open) ==
    IF StartsWith(line, "@@") THEN "hunk"
    ELSE IF ~open THEN "none"
    ELSE IF StartsWith(line, "+") THEN "added"
    ELSE IF StartsWith(line, "-") THEN "removed"
    ELSE IF StartsWith(line, " ") THEN "context"
    ELSE IF StartsWith(line, "\\") THEN "marker"
    ELSE "none"

LineKindElseContext(line, open) ==
    IF IsHeaderLine(line) THEN "skip"
    ELSE IF StartsWith(line, "@@") THEN "hunk"
    ELSE IF ~open THEN "none"
    ELSE IF StartsWith(line, "+") /\ ~StartsWith(line, "+++") THEN "added"
    ELSE IF StartsWith(line, "-") /\ ~StartsWith(line, "---") THEN "removed"
    ELSE IF StartsWith(line, "\\") THEN "marker"
    ELSE "context"

LineKindNoHunkTest(line, open) ==
    IF IsHeaderLine(line) THEN "skip"
    ELSE IF StartsWith(line, "@@") THEN "hunk"
    ELSE IF StartsWith(line, "+") /\ ~StartsWith(line, "+++") THEN "added"
    ELSE IF StartsWith(line, "-") /\ ~StartsWith(line, "---") THEN "removed"
    ELSE IF StartsWith(line, " ") THEN "context"
    ELSE IF StartsWith(line, "\\") THEN "marker"
    ELSE "none"

LineKind(line, open) ==
    IF IsHeaderLine(line) THEN "skip"
    ELSE IF StartsWith(line, "@@") THEN "hunk"
    ELSE IF ~open THEN "none"
    ELSE IF StartsWith(line, "+") /\ ~StartsWith(line, "+++") THEN "added"
    ELSE IF StartsWith(line, "-") /\ ~StartsWith(line, "---") THEN "removed"
    ELSE IF StartsWith(line, " ") THEN "context"
    ELSE IF StartsWith(line, "\\") THEN "marker"
    ELSE "none"

\* The state of the loop: [result, currentHunk, oldLineNum, newLineNum].
PdState(r, h, o, n) == [result |-> r, currentHunk |-> h, oldLineNum |-> o, newLineNum |-> n]

PdStart == PdState(<<>>, 0, 0, 0)

\* currentHunk.lines.push(rec)
PushLine(st, rec) ==
    [st.result EXCEPT ![st.currentHunk].lines = Append(@, rec)]

\* DiffViewer.jsx:113-126
HunkHeaderResetsOnMismatch(st, line) ==
    LET m == HeaderMatch(line)
    IN  IF m # Null
        THEN LET o == ParseInt(m[1][1])
                 n == ParseInt(m[1][2])
             IN  PdState(Append(st.result, [oldStart |-> o, newStart |-> n, lines |-> <<>>]),
                         Len(st.result) + 1, o, n)
        ELSE PdState(st.result, 0, 0, 0)

HunkHeader(st, line) ==
    LET m == HeaderMatch(line)
    IN  IF m # Null
        THEN LET o == ParseInt(m[1][1])
                 n == ParseInt(m[1][2])
             IN  PdState(Append(st.result, [oldStart |-> o, newStart |-> n, lines |-> <<>>]),
                         Len(st.result) + 1, o, n)
        ELSE st

\* DiffViewer.jsx:129-136
AddedLinePreIncrement(st, line) ==
    PdState(PushLine(st, [type |-> "added", content |-> SliceFrom(line, 1),
                          oldLineNum |-> Null, newLineNum |-> Some(st.newLineNum + 1)]),
            st.currentHunk, st.oldLineNum, st.newLineNum + 1)

AddedLine(st, line) ==
    PdState(PushLine(st, [type |-> "added", content |-> SliceFrom(line, 1),
                          oldLineNum |-> Null, newLineNum |-> Some(st.newLineNum)]),
            st.currentHunk, st.oldLineNum, st.newLineNum + 1)

\* DiffViewer.jsx:137-144
RemovedLine(st, line) ==
    PdState(PushLine(st, [type |-> "removed", content |-> SliceFrom(line, 1),
                          oldLineNum |-> Some(st.oldLineNum), newLineNum |-> Null]),
            st.currentHunk, st.oldLineNum + 1, st.newLineNum)

\* DiffViewer.jsx:145-152
ContextLine(st, line) ==
    PdState(PushLine(st, [type |-> "context", content |-> SliceFrom(line, 1),
                          oldLineNum |-> Some(st.oldLineNum),
                          newLineNum |-> Some(st.newLineNum)]),
            st.currentHunk, st.oldLineNum + 1, st.newLineNum + 1)

\* DiffViewer.jsx:153-159: the pushed object has no line-number properties.
MarkerLineStripped(st, line) ==
    PdState(PushLine(st, [type |-> "marker", content |-> SliceFrom(line, 1)]),
            st.currentHunk, st.oldLineNum, st.newLineNum)

MarkerLine(st, line) ==
    PdState(PushLine(st, [type |-> "marker", content |-> line]),
            st.currentHunk, st.oldLineNum, st.newLineNum)

\* The body of the for loop (DiffViewer.jsx:105-160) on one line.
PdStep(st, line) ==
    LET kind == LineKind(line, st.currentHunk # 0)
    IN  CASE kind = "hunk" -> HunkHeader(st, line)
          [] kind = "added" -> AddedLine(st, line)
          [] kind = "removed" -> RemovedLine(st, line)
          [] kind = "context" -> ContextLine(st, line)
          [] kind = "marker" -> MarkerLine(st, line)
          [] OTHER -> st

\* The iteration ends in a TypeError: currentHunk.lines is read with
\* currentHunk null (DiffViewer.jsx:130, 138, 146, 154).
Throws(st, line) ==
    /\ LineKind(line, st.currentHunk # 0) \in {"added", "removed", "context", "marker"}
    /\ st.currentHunk = 0

\* The loop over lines[1..n].
RECURSIVE PdFold(_, _)
PdFold(ls, n) == IF n = 0 THEN PdStart ELSE PdStep(PdFold(ls, n - 1), ls[n])

\* parseDiff(diffText) as a function (DiffViewer.jsx:95-164).
ParseDiff(text) ==
    IF text = "" THEN <<>>
    ELSE LET ls == SplitLines(text) IN PdFold(ls, Len(ls)).result

(***************************************************************************)
(* The inputs parseDiff is run on: every text of at most MaxLines lines    *)
(* drawn from DiffLines, and the example diffs.                            *)
(***************************************************************************)

MaxLines == 3

\* The lines the inputs are made of, each with what a unified-diff reader
\* expects of it: hdr is Null, or Some(<<oldStart, newStart>>) for a hunk
\* header; meta marks the file-header lines.
DiffLines == <<
    [text |-> "diff --git a/x b/x",           hdr |-> Null,            meta |-> TRUE],
    [text |-> "index abc..def 100644",        hdr |-> Null,            meta |-> TRUE],
    [text |-> "--- a/x",                      hdr |-> Null,            meta |-> TRUE],
    [text |-> "+++ trailer",                  hdr |-> Null,            meta |-> TRUE],
    [text |-> "@@ -5,3 +5,4 @@",              hdr |-> Some(<<5, 5>>),  meta |-> FALSE],
    [text |-> "@@ -1 +1 @@",                  hdr |-> Some(<<1, 1>>),  meta |-> FALSE],
    [text |-> "@@ -12,0 +0,7 @@ fn(a)",       hdr |-> Some(<<12, 0>>), meta |-> FALSE],
    [text |-> "@@ -a,b +c,d @@",              hdr |-> Null,            meta |-> FALSE],
    [text |-> "@@",                           hdr |-> Null,            meta |-> FALSE],
    [text |-> " ctx",                         hdr |-> Null,            meta |-> FALSE],
    [text |-> "-old",                         hdr |-> Null,            meta |-> FALSE],
    [text |-> "+new1",                        hdr |-> Null,            meta |-> FALSE],
    [text |-> "\\ No newline at end of file", hdr |-> Null,            meta |-> FALSE],
    [text |-> "",                             hdr |-> Null,            meta |-> FALSE],
    [text |-> "Binary files differ",          hdr |-> Null,            meta |-> FALSE] >>

DiffLineTexts == {DiffLines[k].text : k \in 1..Len(DiffLines)}

\* Lines that occur in the example diffs only.
ExampleLines == <<
    [text |-> "+++ b/x",    hdr |-> Null, meta |-> TRUE],
    [text |-> "@@ bad @@",  hdr |-> Null, meta |-> FALSE],
    [text |-> "+new2",      hdr |-> Null, meta |-> FALSE] >>

KnownLines == DiffLines \o ExampleLines

\* What a unified-diff reader expects of a line.
Expected(line) == KnownLines[CHOOSE k \in 1..Len(KnownLines) : KnownLines[k].text = line]

\* lines.join('\n')
RECURSIVE JoinLines(_)
JoinLines(ls) ==
    IF Len(ls) = 0 THEN ""
    ELSE IF Len(ls) = 1 THEN ls[1]
    ELSE ls[1] \o "\n" \o JoinLines(Tail(ls))

ExampleHunk == "@@ -5,3 +5,4 @@\n ctx\n-old\n+new1\n+new2"

ExampleFile ==
    "diff --git a/x b/x\nindex abc..def 100644\n--- a/x\n+++ b/x\n"
    \o "@@ -1 +1 @@\n-old\n+++ trailer\n+new1\n\\ No newline at end of file\n"
    \o "@@ bad @@\n ctx\n@@ -12,0 +0,7 @@ fn(a)\n+new2\n"

DiffTexts ==
    {JoinLines(ls) : ls \in UNION {[1..n -> DiffLineTexts] : n \in 0..MaxLines}}
    \cup {ExampleHunk, ExampleFile}

PdInit ==
    /\ diffText \in DiffTexts
    /\ lines = <<>>
    /\ i = 1
    /\ result = <<>>
    /\ currentHunk = 0
    /\ oldLineNum = 0
    /\ newLineNum = 0
    /\ pdPc = "call"

\* DiffViewer.jsx:96-102
ParseDiffEnter ==
    /\ pdPc = "call"
    /\ IF diffText = ""
       THEN pdPc' = "done" /\ lines' = lines
       ELSE pdPc' = "loop" /\ lines' = SplitLines(diffText)
    /\ UNCHANGED <<diffText, i, result, currentHunk, oldLineNum, newLineNum>>
    /\ UNCHANGED <<psVars, dvVars, appVars, gcVars, sfVars, chatVars, stVars>>

\* DiffViewer.jsx:104-161, one iteration
ParseDiffLine ==
    /\ pdPc = "loop"
    /\ i <= Len(lines)
    /\ LET cur == PdState(result, currentHunk, oldLineNum, newLineNum)
           st == PdStep(cur, lines[i])
       IN  IF Throws(cur, lines[i])
           THEN /\ pdPc' = "threw"
                /\ UNCHANGED <<result, currentHunk, oldLineNum, newLineNum, i>>
           ELSE /\ result' = st.result
                /\ currentHunk' = st.currentHunk
                /\ oldLineNum' = st.oldLineNum
                /\ newLineNum' = st.newLineNum
                /\ i' = i + 1
                /\ UNCHANGED pdPc
    /\ UNCHANGED <<diffText, lines>>
    /\ UNCHANGED <<psVars, dvVars, appVars, gcVars, sfVars, chatVars, stVars>>

\* DiffViewer.jsx:163
ParseDiffReturn ==
    /\ pdPc = "loop"
    /\ i > Len(lines)
    /\ pdPc' = "done"
    /\ UNCHANGED <<diffText, lines, i, result, currentHunk, oldLineNum, newLineNum>>
    /\ UNCHANGED <<psVars, dvVars, appVars, gcVars, sfVars, chatVars, stVars>>

PdNext == ParseDiffEnter \/ ParseDiffLine \/ ParseDiffReturn

\* The variables of the parts a specification leaves alone.
PdIdle ==
    /\ diffText = "" /\ lines = <<>> /\ i = 1 /\ result = <<>> /\ currentHunk = 0
    /\ oldLineNum = 0 /\ newLineNum = 0 /\ pdPc = "done"

PsIdle == raw = "" /\ files = <<>> /\ psPc = "done"

\* The DiffViewer as mounted, with no file (DiffViewer.jsx:7-12).
DvInit ==
    /\ filePath = "" /\ diff = "" /\ fileContent = "" /\ loading = FALSE /\ error = Null
    /\ isNewFile = FALSE /\ isDeleted = FALSE /\ loads = <<>> /\ selects = 0

\* The App as mounted (App.jsx:15-31), with no request in flight.
AppInit ==
    /\ repoPath = "" /\ statusData = Null /\ polling = FALSE
    /\ lastStatusRef = Null /\ isUpdatingRef = FALSE /\ fileRefreshTrigger = 0
    /\ polls = EmptyBag /\ updates = EmptyBag /\ setRepos = EmptyBag
    /\ calls = 0

\* GitControls on a branch, with no request in flight (unnamed/part_001:7-22).
GcInit ==
    /\ currentBranch = "main" /\ dirty \in BOOLEAN /\ switchBranchDialog = Null
    /\ changeOption = "stash" /\ switchingBranch = FALSE /\ gcError = Null
    /\ checks = EmptyBag /\ switches = EmptyBag /\ choices = 0

GcIdle ==
    /\ currentBranch = "main" /\ dirty = FALSE /\ switchBranchDialog = Null
    /\ changeOption = "stash" /\ switchingBranch = FALSE /\ gcError = Null
    /\ checks = EmptyBag /\ switches = EmptyBag /\ choices = 0

\* StatusFeed with no file and nothing in flight.
SfIdle ==
    /\ sfStatus = "" /\ selectedFiles = <<>> /\ selectionAnchor = Null
    /\ contextMenu = Null /\ stagedFiles = {}
    /\ sfEffects = "none" /\ sfRender = TRUE
    /\ batches = EmptyBag /\ refreshes = 0 /\ sfCalls = 0

\* ChatInterface as mounted (README.md:467-472).
ChatInit ==
    /\ messages = <<[role |-> "assistant", dsl |-> Null,
                     content |-> "Hello! I am your Gemini Git Agent. How can I help you today?"]>>
    /\ input = "" /\ chatLoading = FALSE /\ abortControllerRef = Null
    /\ chats = {} /\ sends = 0

\* Settings as mounted, with no handler running (Settings.jsx:7-22).
StInit ==
    /\ newKey = "" /\ testing = FALSE /\ saving = FALSE
    /\ stError = "" /\ warning = "" /\ success = ""
    /\ stPc = "idle" /\ testResult = Null /\ saves = 0 /\ runs = 0

\* parseDiff run on each input.
InitParseDiff == PdInit /\ PsIdle /\ DvInit /\ AppInit /\ GcIdle /\ SfIdle /\ ChatInit /\ StInit

SpecParseDiff == InitParseDiff /\ [][PdNext]_vars

(***************************************************************************)
(* Properties of parseDiff.                                                *)
(***************************************************************************)

\* The number of lines of h.lines[1..k-1] whose type is in types.
Earlier(h, k, types) == Cardinality({j \in 1..(k - 1) : h.lines[j].type \in types})

LineNumbered(h, k) ==
    LET l == h.lines[k]
        o == Some(h.oldStart + Earlier(h, k, {"context", "removed"}))
        n == Some(h.newStart + Earlier(h, k, {"context", "added"}))
    IN  /\ l.type = "context" => l.oldLineNum = o /\ l.newLineNum = n
        /\ l.type = "removed" => l.oldLineNum = o /\ l.newLineNum = Null
        /\ l.type = "added" => l.newLineNum = n /\ l.oldLineNum = Null

\* A line is being processed by the next loop iteration.
AtLine == pdPc = "loop" /\ i <= Len(lines)

\* The line the last loop iteration processed was ln.
JustProcessed(ln) == pdPc \in {"loop", "done"} /\ i > 1 /\ lines[i - 1] = ln

\* C1: in every hunk the line numbers follow the hunk header: a context line
\* carries oldStart + (earlier context or removed lines) and newStart + (earlier
\* context or added lines), a removed line only the former, an added line only
\* the latter; the example hunk @@ -5,3 +5,4 @@ yields context(5, 5),
\* removed(6), added(6), added(7).
C1_LineNumbersFollowHeader ==
    /\ \A h \in 1..Len(result) : \A k \in 1..Len(result[h].lines) :
           LineNumbered(result[h], k)
    /\ pdPc = "done" /\ diffText = ExampleHunk =>
           result = << [oldStart |-> 5, newStart |-> 5, lines |-> <<
               [type |-> "context", content |-> "ctx",
                oldLineNum |-> Some(5), newLineNum |-> Some(5)],
               [type |-> "removed", content |-> "old",
                oldLineNum |-> Some(6), newLineNum |-> Null],
               [type |-> "added", content |-> "new1",
                oldLineNum |-> Null, newLineNum |-> Some(6)],
               [type |-> "added", content |-> "new2",
                oldLineNum |-> Null, newLineNum |-> Some(7)] >>] >>

C1_Witness ==
    /\ pdPc = "done" /\ diffText = ExampleHunk
    /\ Len(result) = 1 /\ Len(result[1].lines) = 4

\* The <<oldStart, newStart>> a unified-diff reader expects of the hunk headers
\* among ls[1..n], in order.
RECURSIVE ExpectedStarts(_, _)
ExpectedStarts(ls, n) ==
    IF n = 0 THEN <<>>
    ELSE IF Expected(ls[n]).hdr # Null
         THEN Append(ExpectedStarts(ls, n - 1), Expected(ls[n]).hdr[1])
         ELSE ExpectedStarts(ls, n - 1)

\* C2: the hunks are exactly the hunk-header lines processed so far, in input
\* order, each with the header's start numbers (also when the counts are
\* omitted), whatever lines were processed after the header; empty input gives
\* the empty sequence.
C2_OneHunkPerHeader ==
    /\ [h \in 1..Len(result) |-> <<result[h].oldStart, result[h].newStart>>]
           = ExpectedStarts(lines, IF pdPc = "call" THEN 0 ELSE i - 1)
    /\ pdPc = "done" => i = Len(lines) + 1
    /\ pdPc = "done" /\ diffText = "" => result = <<>>

C2_Witness ==
    /\ pdPc = "done" /\ Len(result) = 2
    /\ lines[1] = "@@ -1 +1 @@" /\ result[1].oldStart = 1 /\ result[1].newStart = 1
    /\ Len(result[1].lines) = 1

\* C3: a file-header line (diff --git, index, ---, +++) is skipped wherever it
\* occurs: processing it appends nothing, opens nothing and leaves both
\* counters unchanged.
C3_MetadataSkipped ==
    [][AtLine /\ Expected(lines[i]).meta =>
           UNCHANGED <<result, currentHunk, oldLineNum, newLineNum>>]_vars

C3_Witness ==
    /\ JustProcessed("+++ trailer")
    /\ currentHunk # 0 /\ Len(result[currentHunk].lines) > 0

\* The characters that start a line parseDiff appends.
AppendedFirstChars == {"+", "-", " ", "\\"}

\* The number of lines in all the hunks of r.
RECURSIVE LineCount(_)
LineCount(r) == IF Len(r) = 0 THEN 0 ELSE Len(r[1].lines) + LineCount(Tail(r))

Dropped == UNCHANGED <<result, currentHunk, oldLineNum, newLineNum>>

\* C4 as claimed: a line is appended only when a hunk is open and the line
\* starts with +, -, space or backslash; every line before the first hunk
\* header and every line in an open hunk with another first character is
\* dropped and changes neither counter.
C4_DroppedLinesAsClaimed ==
    [][AtLine =>
           /\ LineCount(result') > LineCount(result) =>
                  currentHunk # 0 /\ CharAt(lines[i], 0) \in AppendedFirstChars
           /\ currentHunk = 0 /\ Expected(lines[i]).hdr = Null => Dropped
           /\ currentHunk # 0 /\ CharAt(lines[i], 0) \notin AppendedFirstChars => Dropped]_vars

\* C4 (amended): as claimed, for the lines in an open hunk that are not a
\* matching hunk header (such a header starts with @, opens the next hunk and
\* resets both counters).
C4_DroppedLines ==
    [][AtLine =>
           /\ LineCount(result') > LineCount(result) =>
                  currentHunk # 0 /\ CharAt(lines[i], 0) \in AppendedFirstChars
           /\ currentHunk = 0 /\ Expected(lines[i]).hdr = Null => Dropped
           /\ /\ currentHunk # 0
              /\ CharAt(lines[i], 0) \notin AppendedFirstChars
              /\ Expected(lines[i]).hdr = Null
              => Dropped]_vars

C4_Witness ==
    /\ JustProcessed("")
    /\ currentHunk # 0 /\ Len(result[currentHunk].lines) > 0

\* C5: a line that starts with @@ but is no hunk header opens no hunk, is not
\* appended, and leaves the current hunk and both counters unchanged, so the
\* lines after it go to the hunk opened before it, with continuing numbers.
C5_BadHeaderSkipped ==
    /\ [][AtLine /\ StartsWith(lines[i], "@@") /\ Expected(lines[i]).hdr = Null =>
              UNCHANGED <<result, currentHunk, oldLineNum, newLineNum>>]_vars
    /\ [](pdPc = "done" /\ diffText = ExampleFile =>
              /\ lines[10] = "@@ bad @@" /\ lines[11] = " ctx"
              /\ Len(result) = 2 /\ Len(result[1].lines) = 4
              /\ result[1].lines[4] = [type |-> "context", content |-> "ctx",
                                       oldLineNum |-> Some(2), newLineNum |-> Some(2)])

C5_Witness ==
    /\ pdPc = "done" /\ Len(lines) = 3
    /\ lines[1] = "@@ -5,3 +5,4 @@" /\ lines[2] = "@@ -a,b +c,d @@" /\ lines[3] = "-old"
    /\ Len(result) = 1 /\ Len(result[1].lines) = 1
    /\ result[1].lines[1].oldLineNum = Some(5)

\* The shape of a DiffLine.
WellFormedLine(l) ==
    /\ l.type \in {"added", "removed", "context", "marker"}
    /\ l.type = "added" =>
           /\ DOMAIN l = {"type", "content", "oldLineNum", "newLineNum"}
           /\ l.oldLineNum = Null /\ l.newLineNum # Null
    /\ l.type = "removed" =>
           /\ DOMAIN l = {"type", "content", "oldLineNum", "newLineNum"}
           /\ l.oldLineNum # Null /\ l.newLineNum = Null
    /\ l.type = "context" =>
           /\ DOMAIN l = {"type", "content", "oldLineNum", "newLineNum"}
           /\ l.oldLineNum # Null /\ l.newLineNum # Null
    /\ l.type = "marker" =>
           /\ DOMAIN l = {"type", "content"}
           /\ StartsWith(l.content, "\\")

\* C6: every DiffLine is one of added, removed, context or marker, with the
\* line numbers of its type only; a line with a leading backslash in an open
\* hunk is appended as a marker whose content is the raw line, and advances
\* neither counter.
C6_LineVariants ==
    /\ [](\A h \in 1..Len(result) : \A k \in 1..Len(result[h].lines) :
              WellFormedLine(result[h].lines[k]))
    /\ [][AtLine /\ currentHunk # 0 /\ StartsWith(lines[i], "\\") =>
              /\ result' = [result EXCEPT ![currentHunk].lines =
                                Append(@, [type |-> "marker", content |-> lines[i]])]
              /\ UNCHANGED <<currentHunk, oldLineNum, newLineNum>>]_vars

C6_Witness ==
    /\ JustProcessed("\\ No newline at end of file")
    /\ currentHunk # 0 /\ Len(result[currentHunk].lines) = 2
    /\ result[currentHunk].lines[2].type = "marker"
    /\ result[currentHunk].lines[1].type = "context"

(***************************************************************************)
(* parseStatus (StatusFeed.jsx:18-33).                                     *)
(***************************************************************************)

\* The white space String.prototype.trim removes, as far as a TLA+ string
\* can hold it.
WhiteSpace == {" ", "\t", "\n", "\r", "\f"}

\* s.trim()
RECURSIVE TrimStart(_)
TrimStart(s) == IF CharAt(s, 0) \in WhiteSpace THEN TrimStart(SliceFrom(s, 1)) ELSE s

RECURSIVE TrimEnd(_)
TrimEnd(s) ==
    IF CharAt(s, Len(s) - 1) \in WhiteSpace THEN TrimEnd(Slice(s, 0, Len(s) - 1)) ELSE s

Trim(s) == TrimEnd(TrimStart(s))

\* The filter's predicate, line => line.trim() (StatusFeed.jsx:20)
KeepsLineUntrimmed(line) == line # ""

KeepsLine(line) == Trim(line) # ""

\* The map's callback (StatusFeed.jsx:20-32)
StatusEntrySpaceOnly(line) ==
    LET code == Slice(line, 0, 2)
        quoted == SliceFrom(line, 3)
        path == IF StartsWith(quoted, "\"") /\ EndsWith(quoted, "\"")
                THEN Slice(quoted, 1, -1) ELSE quoted
        isStaged == CharAt(code, 0) # " "
        status == IF isStaged THEN CharAt(code, 0)
                  ELSE IF CharAt(code, 1) # "" THEN CharAt(code, 1) ELSE CharAt(code, 0)
    IN  [code |-> code, path |-> path, isStaged |-> isStaged, status |-> status]

StatusEntry(line) ==
    LET code == Slice(line, 0, 2)
        quoted == SliceFrom(line, 3)
        path == IF StartsWith(quoted, "\"") /\ EndsWith(quoted, "\"")
                THEN Slice(quoted, 1, -1) ELSE quoted
        isStaged == CharAt(code, 0) # " " /\ CharAt(code, 0) # "?"
        status == IF isStaged THEN CharAt(code, 0)
                  ELSE IF CharAt(code, 1) # "" THEN CharAt(code, 1) ELSE CharAt(code, 0)
    IN  [code |-> code, path |-> path, isStaged |-> isStaged, status |-> status]

\* raw.split('\n').filter(...).map(...) over ls[1..n]
RECURSIVE FilterMap(_, _)
FilterMap(ls, n) ==
    IF n = 0 THEN <<>>
    ELSE IF KeepsLine(ls[n]) THEN Append(FilterMap(ls, n - 1), StatusEntry(ls[n]))
    ELSE FilterMap(ls, n - 1)

ParseStatus(text) ==
    IF text = "" THEN <<>>
    ELSE LET ls == SplitLines(text) IN FilterMap(ls, Len(ls))

MaxStatusLines == 3

\* The lines the inputs are made of; blank marks the blank and
\* white-space-only ones.
StatusLines == <<
    [text |-> "M  file.txt",       blank |-> FALSE],
    [text |-> "?? new.txt",        blank |-> FALSE],
    [text |-> "R  \"a b.txt\"",    blank |-> FALSE],
    [text |-> " M mod.txt",        blank |-> FALSE],
    [text |-> "A  \"open.txt",     blank |-> FALSE],
    [text |-> "D  \"\"",           blank |-> FALSE],
    [text |-> "M  \"",             blank |-> FALSE],
    [text |-> "M",                 blank |-> FALSE],
    [text |-> "?",                 blank |-> FALSE],
    [text |-> " D",                blank |-> FALSE],
    [text |-> "",                  blank |-> TRUE],
    [text |-> "   ",               blank |-> TRUE],
    [text |-> "\t",                blank |-> TRUE] >>

StatusLineTexts == {StatusLines[k].text : k \in 1..Len(StatusLines)}

IsBlank(line) == StatusLines[CHOOSE k \in 1..Len(StatusLines) : StatusLines[k].text = line].blank

StatusTexts ==
    {JoinLines(ls) : ls \in UNION {[1..n -> StatusLineTexts] : n \in 0..MaxStatusLines}}

PsInit == raw \in StatusTexts /\ files = <<>> /\ psPc = "call"

\* StatusFeed.jsx:18-33
ParseStatusCall ==
    /\ psPc = "call"
    /\ files' = ParseStatus(raw)
    /\ psPc' = "done"
    /\ UNCHANGED raw
    /\ UNCHANGED <<pdVars, dvVars, appVars, gcVars, sfVars, chatVars, stVars>>

PsNext == ParseStatusCall

\* parseStatus run on each input.
InitParseStatus == PdIdle /\ PsInit /\ DvInit /\ AppInit /\ GcIdle /\ SfIdle /\ ChatInit /\ StInit

SpecParseStatus == InitParseStatus /\ [][PsNext]_vars

\* Either parser run on each of its inputs.
InitParsers == InitParseDiff \/ InitParseStatus

SpecParsers == InitParsers /\ [][PdNext \/ PsNext]_vars

(***************************************************************************)
(* Properties of parseStatus.                                              *)
(***************************************************************************)

\* The lines of raw that are not blank, in order.
RECURSIVE NonBlank(_, _)
NonBlank(ls, n) ==
    IF n = 0 THEN <<>>
    ELSE IF IsBlank(ls[n]) THEN NonBlank(ls, n - 1)
    ELSE Append(NonBlank(ls, n - 1), ls[n])

SourceLines == IF raw = "" THEN <<>> ELSE NonBlank(SplitLines(raw), Len(SplitLines(raw)))

\* C7: isStaged holds exactly when the first character of the code is neither
\* a space nor ?, and status is code[0] when staged, else code[1] if present,
\* else code[0]; M  file.txt is staged with status M, ?? new.txt is not staged
\* and has status ?.
C7_StagedAndStatus ==
    psPc = "done" =>
        /\ \A k \in 1..Len(files) :
               LET e == files[k]
               IN  /\ e.isStaged = (SubSeq(e.code, 1, 1) \notin {" ", "?"})
                   /\ e.status = IF e.isStaged THEN SubSeq(e.code, 1, 1)
                                 ELSE IF Len(e.code) >= 2 THEN SubSeq(e.code, 2, 2)
                                 ELSE SubSeq(e.code, 1, 1)
        /\ raw = "M  file.txt\n?? new.txt\n" =>
               files = << [code |-> "M ", path |-> "file.txt",
                           isStaged |-> TRUE, status |-> "M"],
                          [code |-> "??", path |-> "new.txt",
                           isStaged |-> FALSE, status |-> "?"] >>

C7_Witness ==
    /\ psPc = "done" /\ raw = "M  file.txt\n?? new.txt\n"
    /\ Len(files) = 2 /\ files[1].isStaged /\ ~files[2].isStaged

\* The code and the path of a status line are its first two characters and
\* its characters after the third.
CodeAndPath(line, code, quoted) ==
    IF Len(line) <= 2 THEN code = line /\ quoted = ""
    ELSE /\ Len(code) = 2
         /\ \E sep \in {SubSeq(line, 3, 3)} : line = code \o sep \o quoted

EntryOf(e, line) ==
    /\ e.code = Slice(line, 0, 2)
    /\ e.path \in {SliceFrom(line, 3), Slice(SliceFrom(line, 3), 1, -1)}

\* C9: one entry per input line that is not blank or white space only, in
\* input order, entries with equal paths included: as many entries as
\* non-blank lines.
C9_OneEntryPerLine ==
    psPc = "done" =>
        /\ Len(files) = Len(SourceLines)
        /\ \A k \in 1..Len(files) : EntryOf(files[k], SourceLines[k])

C9_Witness ==
    /\ psPc = "done" /\ raw = "M  file.txt\n   \nM  file.txt"
    /\ Len(files) = 2 /\ files[1].path = files[2].path

(***************************************************************************)
(* The DiffViewer component (DiffViewer.jsx): its state, the effect that   *)
(* loads the file content and then the diff, and what renderDiff shows.    *)
(***************************************************************************)

MaxSelects == 2

Paths == {"a.txt", "b.txt"}

\* What GET /file may answer for a path: res.data.content || ''.
FileBodies(p) == IF p = "a.txt" THEN {"", "a\nb\n"} ELSE {"", "x\n\ny"}

\* What GET /diff may answer for a path.
DiffBodies(p) ==
    IF p = "a.txt" THEN {"", "@@ -1,2 +1,2 @@\n a\n-c\n+b\n"}
    ELSE {"", "diff --git a/b.txt b/b.txt\n"}

DiffResponses(p) ==
    [diff : DiffBodies(p), is_untracked : BOOLEAN, is_deleted : BOOLEAN,
     file_status : {"", "new", "modified"}]

\* How GET /diff may fail: the HTTP status (0 when there is no response) and
\* err.response?.data?.error ("" when absent).
DiffFailures == [status : {0, 404, 500}, error : {"", "bad revision"}]

\* loads without its k-th element
RemoveAt(seq, k) == SubSeq(seq, 1, k - 1) \o SubSeq(seq, k + 1, Len(seq))

\* The filePath prop changes and the effect runs (DiffViewer.jsx:14-24):
\* loadData() starts with the loadFileContent and loadDiff of this render,
\* which close over this render's filePath and fileContent.
OpenFile(p) ==
    /\ selects < MaxSelects
    /\ p # filePath
    /\ filePath' = p
    /\ selects' = selects + 1
    /\ loads' = IF p # ""
                THEN Append(loads, [path |-> p, fileContent |-> fileContent,
                                    pc |-> "file", loaded |-> ""])
                ELSE loads
    /\ UNCHANGED <<diff, fileContent, loading, error, isNewFile, isDeleted>>
    /\ UNCHANGED <<pdVars, psVars, appVars, gcVars, sfVars, chatVars, stVars>>

\* The first statements of loadDiff (DiffViewer.jsx:40-45), run when
\* loadFileContent has returned; loaded records what GET /file gave this
\* load ("" when it failed).
StartLoadDiff(k, content) ==
    /\ loading' = TRUE
    /\ error' = Null
    /\ isNewFile' = FALSE
    /\ isDeleted' = FALSE
    /\ loads' = [loads EXCEPT ![k].pc = "diff", ![k].loaded = content]

\* GET /file answers (DiffViewer.jsx:28-30, then 20 and 40-45).
FileLoaded(k, content) ==
    /\ loads[k].pc = "file"
    /\ fileContent' = content
    /\ StartLoadDiff(k, content)
    /\ UNCHANGED <<filePath, diff, selects>>
    /\ UNCHANGED <<pdVars, psVars, appVars, gcVars, sfVars, chatVars, stVars>>

\* GET /file fails (DiffViewer.jsx:31-36, then 20 and 40-45).
FileFailed(k) ==
    /\ loads[k].pc = "file"
    /\ fileContent' = ""
    /\ StartLoadDiff(k, "")
    /\ UNCHANGED <<filePath, diff, selects>>
    /\ UNCHANGED <<pdVars, psVars, appVars, gcVars, sfVars, chatVars, stVars>>

\* GET /diff answers (DiffViewer.jsx:46-68, 90-92).
DiffLoaded(k, res) ==
    /\ loads[k].pc = "diff"
    /\ isDeleted' = res.is_deleted
    /\ LET new == res.is_untracked \/ res.file_status = "new" \/ res.file_status = "untracked"
       IN  /\ isNewFile' = new
           /\ diff' = IF new THEN "" ELSE res.diff
    /\ loading' = FALSE
    /\ loads' = RemoveAt(loads, k)
    /\ UNCHANGED <<filePath, fileContent, error, selects>>
    /\ UNCHANGED <<pdVars, psVars, appVars, gcVars, sfVars, chatVars, stVars>>

\* GET /diff fails (DiffViewer.jsx:69-92). fileContent is the one loadDiff
\* closed over.
DiffFailed(k, err) ==
    /\ loads[k].pc = "diff"
    /\ IF loads[k].fileContent # ""
       THEN isNewFile' = TRUE /\ error' = Null /\ UNCHANGED isDeleted
       ELSE IF err.status = 404
       THEN isDeleted' = TRUE /\ error' = Null /\ UNCHANGED isNewFile
       ELSE /\ error' = Some(IF err.error # "" THEN err.error ELSE "Failed to load diff")
            /\ UNCHANGED <<isNewFile, isDeleted>>
    /\ loading' = FALSE
    /\ loads' = RemoveAt(loads, k)
    /\ UNCHANGED <<filePath, diff, fileContent, selects>>
    /\ UNCHANGED <<pdVars, psVars, appVars, gcVars, sfVars, chatVars, stVars>>

DvNext ==
    \/ \E p \in Paths \cup {""} : OpenFile(p)
    \/ \E k \in 1..Len(loads) : \E content \in FileBodies(loads[k].path) : FileLoaded(k, content)
    \/ \E k \in 1..Len(loads) : FileFailed(k)
    \/ \E k \in 1..Len(loads) : \E res \in DiffResponses(loads[k].path) : DiffLoaded(k, res)
    \/ \E k \in 1..Len(loads) : \E err \in DiffFailures : DiffFailed(k, err)

InitDiffViewer == PdIdle /\ PsIdle /\ DvInit /\ AppInit /\ GcIdle /\ SfIdle /\ ChatInit /\ StInit

SpecDiffViewer == InitDiffViewer /\ [][DvNext]_vars

\* A record of the rendered output that is a message and no line.
Sentinel(text) == [kind |-> "sentinel", text |-> text]

\* {line || ' '}
OrSpace(line) == IF line = "" THEN " " ELSE line

\* A line rendered with one line-number column (DiffViewer.jsx:194-222, 261-286).
NumberedLine(type, idx, line) ==
    [kind |-> "line", type |-> type, num |-> idx, content |-> OrSpace(line)]

\* renderNewFile (DiffViewer.jsx:166-226)
RenderNewFile ==
    IF fileContent = "" /\ ~loading THEN <<Sentinel("Empty file")>>
    ELSE LET ls == SplitLines(fileContent)
         IN  <<[kind |-> "banner", text |-> "New file"]>>
             \o IF Len(ls) = 0 THEN <<Sentinel("Empty file")>>
                ELSE [k \in 1..Len(ls) |-> NumberedLine("added", k, ls[k])]

\* A hunk as rendered (DiffViewer.jsx:305-374)
RenderHunk(hunk) ==
    [kind |-> "hunk",
     lines |-> [k \in 1..Len(hunk.lines) |->
                   LET l == hunk.lines[k]
                   IN  [type |-> l.type,
                        old |-> IF "oldLineNum" \in DOMAIN l THEN l.oldLineNum ELSE Null,
                        new |-> IF "newLineNum" \in DOMAIN l THEN l.newLineNum ELSE Null,
                        content |-> l.content]]]

\* renderDiff (DiffViewer.jsx:228-377)
RenderDiff ==
    IF loading THEN <<Sentinel("Loading diff...")>>
    ELSE IF error # Null THEN <<[kind |-> "error", text |-> error[1]]>>
    ELSE IF isNewFile /\ ~isDeleted THEN RenderNewFile
    ELSE IF isDeleted /\ diff = "" THEN <<Sentinel("File has been deleted")>>
    ELSE IF diff = "" /\ ~isNewFile /\ ~isDeleted
    THEN IF fileContent # ""
         THEN LET ls == SplitLines(fileContent)
              IN  [k \in 1..Len(ls) |-> NumberedLine("plain", k, ls[k])]
         ELSE <<Sentinel("No changes detected")>>
    ELSE LET hunks == ParseDiff(diff)
         IN  IF Len(hunks) = 0 THEN <<Sentinel("No changes to display")>>
             ELSE [h \in 1..Len(hunks) |-> RenderHunk(hunks[h])]

\* What the component shows (DiffViewer.jsx:379-431): nothing without a file.
Rendered == IF filePath = "" THEN <<>> ELSE RenderDiff

(***************************************************************************)
(* Properties of the diff renderer.                                        *)
(***************************************************************************)

\* Loading has finished without error and a file is shown.
Settled == filePath # "" /\ ~loading /\ error = Null

\* The lines of a text file: each ends with its newline, so a final newline
\* ends the last line and starts no further one.
TextLines(text) ==
    IF text = "" THEN <<>>
    ELSE LET ls == SplitLines(text)
         IN  IF ls[Len(ls)] = "" THEN SubSeq(ls, 1, Len(ls) - 1) ELSE ls

\* The records of the output that are lines.
LinesOf(out) == SelectSeq(out, LAMBDA r : r.kind = "line")

\* C10: once loading has finished without error, with isNewFile and not
\* isDeleted the output is every line of the file content as an added line,
\* numbered from 1, whatever the diff: for a\nb\n two added lines, 1 and 2.
C10_NewFileAllAdded ==
    Settled /\ isNewFile /\ ~isDeleted =>
        /\ LinesOf(Rendered) =
               [k \in 1..Len(TextLines(fileContent)) |->
                    NumberedLine("added", k, TextLines(fileContent)[k])]
        /\ fileContent = "a\nb\n" =>
               LinesOf(Rendered) = << NumberedLine("added", 1, "a"),
                                      NumberedLine("added", 2, "b") >>

\* C11: once loading has finished without error, with isDeleted and a diff
\* that parses to no hunk the output is the 'file deleted' sentinel alone.
C11_DeletedSentinel ==
    Settled /\ isDeleted /\ Len(ParseDiff(diff)) = 0 =>
        Rendered = <<Sentinel("File has been deleted")>>

\* The output is plain lines alone, numbered from 1 in order.
PlainNumbered(out) ==
    /\ Len(out) >= 1
    /\ \A k \in 1..Len(out) :
           out[k].kind = "line" /\ out[k].type = "plain" /\ out[k].num = k

\* A sentinel that says there is no change.
NoChanges == {Sentinel("No changes detected"), Sentinel("No changes to display")}

\* C12: once loading has finished without error, with a diff that parses to
\* no hunk and a file neither new nor deleted, the output is the file content
\* as plain lines numbered in sequence when there is content, and otherwise
\* the 'no changes' sentinel alone.
C12_UnchangedFile ==
    Settled /\ Len(ParseDiff(diff)) = 0 /\ ~isNewFile /\ ~isDeleted =>
        IF fileContent # ""
        THEN PlainNumbered(Rendered)
        ELSE Len(Rendered) = 1 /\ Rendered[1] \in NoChanges

\* C13: when GET /diff fails, a load whose GET /file returned content ends
\* with isNewFile set and no error; without content a 404 ends with isDeleted
\* set and no error, and any other failure ends with an error.
C13_DiffFailureFallback ==
    [][\A k \in 1..Len(loads) : \A err \in DiffFailures :
          DiffFailed(k, err) =>
              IF loads[k].loaded # "" THEN isNewFile' /\ error' = Null
              ELSE IF err.status = 404 THEN isDeleted' /\ error' = Null
              ELSE error' # Null]_vars

(***************************************************************************)
(* Properties of both parsers.                                             *)
(***************************************************************************)

\* C14: on every input text parseDiff and parseStatus return a sequence,
\* empty or partial when lines are malformed: the loop of parseDiff stays
\* within the lines and no run ends in an error.
C14_ParsersNeverRaise ==
    /\ pdPc \in {"call", "loop", "done"}
    /\ pdPc = "loop" => i \in 1..(Len(lines) + 1)
    /\ pdPc = "done" => DOMAIN result = 1..Len(result) /\ Len(result) <= Len(lines)
    /\ psPc \in {"call", "done"}
    /\ psPc = "done" =>
           DOMAIN files = 1..Len(files) /\ Len(files) <= Len(SplitLines(raw))

\* A line before any hunk, a header that does not match and a line no branch
\* takes: parseDiff returns the empty sequence.
C14_Witness ==
    /\ pdPc = "done"
    /\ diffText = "+new1\n@@ -a,b +c,d @@\nBinary files differ"
    /\ result = <<>>

(***************************************************************************)
(* The App component (App.jsx): the repository, the status shown, the      *)
(* background poll and the manual update.  A state change, the render it   *)
(* causes and the effects of that render are one step.                     *)
(***************************************************************************)

MaxCalls == 3

Repos == {"r1", "r2"}

\* The calls in flight are bags of closures: With adds one, Without ends one.
With(bag, r) == bag (+) SetToBag({r})

Without(bag, r) == bag (-) SetToBag({r})

\* What POST /poll may answer: res.data, with status Null when the field is
\* absent and error "" when absent.
Payload(st, hc, fc, er) ==
    [status |-> st, has_changed |-> hc, files_changed |-> fc, error |-> er]

StatusPayloads ==
    {Payload(Some(st), hc, FALSE, "") : st \in {"", "M  a.txt\n"}, hc \in BOOLEAN}
    \cup {Payload(Some("M  a.txt\n"), FALSE, TRUE, "")}

ErrorPayloads ==
    {Payload(Null, FALSE, FALSE, er) : er \in {"Repository not set", "Internal error"}}

Payloads == StatusPayloads \cup ErrorPayloads \cup {Payload(Null, FALSE, FALSE, "")}

\* The answers handleManualUpdate is given: unchanged, changed, no status.
UpdatePayloads ==
    {Payload(Some(""), FALSE, FALSE, ""), Payload(Some("M  a.txt\n"), TRUE, FALSE, ""),
     Payload(Null, FALSE, FALSE, "Internal error")}

\* String(status ?? '').trim() (App.jsx:107, 172, 173)
Trimmed(st) == IF st = Null THEN "" ELSE Trim(st[1])

\* s.includes(t)
RECURSIVE IncludesFrom(_, _, _)
IncludesFrom(s, t, k) ==
    IF k + Len(t) > Len(s) THEN FALSE
    ELSE IF SubSeq(s, k + 1, k + Len(t)) = t THEN TRUE
    ELSE IncludesFrom(s, t, k + 1)

Includes(s, t) == IncludesFrom(s, t, 0)

RenderWithoutRepoPath(rp, pol, ps) ==
    /\ repoPath' = rp
    /\ polling' = pol
    /\ polls' = IF pol /\ (~polling \/ rp # repoPath)
                THEN With(ps, [repo |-> rp, pc |-> "poll"])
                ELSE ps

\* A render with the given repoPath and polling, and its effects
\* (App.jsx:124-238): without a repoPath polling is set back to false; when
\* polling && repoPath holds and either has changed, the effect installs the
\* interval and calls poll() at once. ps is polls without the finished ones.
Render(rp, pol, ps) ==
    /\ repoPath' = rp
    /\ polling' = (pol /\ rp # "")
    /\ polls' = IF pol /\ rp # "" /\ (~polling \/ rp # repoPath)
                THEN With(ps, [repo |-> rp, pc |-> "poll"])
                ELSE ps

\* setRepo(path) up to its first await (App.jsx:37-45). setRepo is reached
\* through RepoInput, which offers it only while no repository is shown, and
\* through a clone started from there that finishes later: its polling is
\* that of a render without repoPath.
SetRepoCall(path) ==
    /\ calls < MaxCalls
    /\ LET closure == IF repoPath = "" THEN polling ELSE FALSE
       IN  /\ Render(repoPath, IF closure THEN FALSE ELSE polling, polls)
           /\ setRepos' = With(setRepos, [path |-> path, polling |-> closure])
    /\ calls' = calls + 1
    /\ UNCHANGED <<statusData, lastStatusRef, isUpdatingRef, fileRefreshTrigger, updates>>
    /\ UNCHANGED <<pdVars, psVars, dvVars, gcVars, sfVars, chatVars, stVars>>

\* POST /set-repo answers (App.jsx:46-52): handleManualUpdate(true) runs up
\* to its await (App.jsx:92-101).
SetRepoOk(c) ==
    /\ Render(c.path, polling, polls)
    /\ lastStatusRef' = Null
    /\ isUpdatingRef' = TRUE
    /\ updates' = With(updates, [force |-> TRUE, then |-> Some(c.polling)])
    /\ setRepos' = Without(setRepos, c)
    /\ UNCHANGED <<statusData, fileRefreshTrigger, calls>>
    /\ UNCHANGED <<pdVars, psVars, dvVars, gcVars, sfVars, chatVars, stVars>>

\* POST /set-repo fails (App.jsx:61-73).
SetRepoFailed(c) ==
    /\ Render(repoPath, FALSE, polls)
    /\ setRepos' = Without(setRepos, c)
    /\ UNCHANGED <<statusData, lastStatusRef, isUpdatingRef, fileRefreshTrigger,
                   updates, calls>>
    /\ UNCHANGED <<pdVars, psVars, dvVars, gcVars, sfVars, chatVars, stVars>>

\* resetRepo (App.jsx:76-84), the Change button shown with a repository.
ResetRepo ==
    /\ repoPath # ""
    /\ Render("", FALSE, polls)
    /\ statusData' = Null
    /\ lastStatusRef' = Null
    /\ fileRefreshTrigger' = 0
    /\ UNCHANGED <<isUpdatingRef, updates, setRepos, calls>>
    /\ UNCHANGED <<pdVars, psVars, dvVars, gcVars, sfVars, chatVars, stVars>>

\* handleManualUpdate(force) up to its await (App.jsx:92-101), called from
\* the controls shown with a repository.
UpdateCall(force) ==
    /\ calls < MaxCalls
    /\ repoPath # ""
    /\ calls' = calls + 1
    /\ IF isUpdatingRef /\ ~force
       THEN UNCHANGED <<isUpdatingRef, updates>>
       ELSE /\ isUpdatingRef' = TRUE
            /\ updates' = With(updates, [force |-> force, then |-> Null])
    /\ UNCHANGED <<repoPath, statusData, polling, lastStatusRef, fileRefreshTrigger,
                   polls, setRepos>>
    /\ UNCHANGED <<pdVars, psVars, dvVars, gcVars, sfVars, chatVars, stVars>>

\* res.data.has_changed || force (App.jsx:104)
UpdateAppliesOnChangeOnly(res, force) == res.has_changed

UpdateApplies(res, force) == res.has_changed \/ force

\* What follows the update in setRepo (App.jsx:59-60, 86-90): startPolling()
\* with the polling setRepo closed over; nothing for any other caller.
PollingAfterUnchanged(u) == polling

PollingAfter(u) == IF u.then # Null /\ ~u.then[1] THEN TRUE ELSE polling

\* POST /poll of handleManualUpdate answers (App.jsx:101-116, 119-121).
UpdateDone(u, res) ==
    /\ statusData' = IF UpdateApplies(res, u.force) THEN Some(res) ELSE statusData
    /\ lastStatusRef' = IF UpdateApplies(res, u.force) /\ res.status # Null
                        THEN Some(Trimmed(res.status))
                        ELSE lastStatusRef
    /\ isUpdatingRef' = FALSE
    /\ updates' = Without(updates, u)
    /\ Render(repoPath, PollingAfter(u), polls)
    /\ UNCHANGED <<fileRefreshTrigger, setRepos, calls>>
    /\ UNCHANGED <<pdVars, psVars, dvVars, gcVars, sfVars, chatVars, stVars>>

\* POST /poll of handleManualUpdate fails (App.jsx:117-121).
UpdateFailed(u) ==
    /\ isUpdatingRef' = FALSE
    /\ updates' = Without(updates, u)
    /\ Render(repoPath, PollingAfter(u), polls)
    /\ UNCHANGED <<statusData, lastStatusRef, fileRefreshTrigger, setRepos,
                   calls>>
    /\ UNCHANGED <<pdVars, psVars, dvVars, gcVars, sfVars, chatVars, stVars>>

\* The interval fires (App.jsx:222, 128-136): poll() of the render whose
\* effect installed it.
PollTick ==
    /\ polling /\ repoPath # ""
    /\ calls < MaxCalls
    /\ calls' = calls + 1
    /\ polls' = With(polls, [repo |-> repoPath, pc |-> "poll"])
    /\ UNCHANGED <<repoPath, statusData, polling, lastStatusRef, isUpdatingRef,
                   fileRefreshTrigger, updates, setRepos>>
    /\ UNCHANGED <<pdVars, psVars, dvVars, gcVars, sfVars, chatVars, stVars>>

\* statusChanged || backendIndicatesChange || isFirstPoll (App.jsx:172-182)
PollUpdatesWithoutFirstPoll(res, last) ==
    \/ Trimmed(res.status) # Trimmed(last)
    \/ res.has_changed

PollUpdates(res, last) ==
    \/ Trimmed(res.status) # Trimmed(last)
    \/ res.has_changed
    \/ last = Null

\* The error is one that makes poll() set the repository again (App.jsx:142).
RepoLost(res) == Includes(res.error, "not set") \/ Includes(res.error, "Repository")

\* POST /poll of poll() answers (App.jsx:136-215). repoPath and currentRepo
\* are both the repoPath of the render that made this poll().
PollDone(p, res) ==
    /\ p.pc = "poll"
    /\ LET closureRepoPath == p.repo
           currentRepo == p.repo
           ignored == res.error # "" \/ res.status = Null \/ closureRepoPath # currentRepo
           applies == ~ignored /\ PollUpdates(res, lastStatusRef)
       IN  /\ polls' = IF res.error # "" /\ RepoLost(res) /\ currentRepo # ""
                       THEN With(Without(polls, p), [p EXCEPT !.pc = "reinit"])
                       ELSE Without(polls, p)
           /\ lastStatusRef' = IF applies THEN Some(Trimmed(res.status)) ELSE lastStatusRef
           /\ statusData' = IF applies THEN Some(res) ELSE statusData
           /\ fileRefreshTrigger' = IF ~ignored /\ res.files_changed
                                    THEN fileRefreshTrigger + 1
                                    ELSE fileRefreshTrigger
    /\ UNCHANGED <<repoPath, polling, isUpdatingRef, updates, setRepos,
                   calls>>
    /\ UNCHANGED <<pdVars, psVars, dvVars, gcVars, sfVars, chatVars, stVars>>

\* POST /poll of poll() fails (App.jsx:216-219).
PollFailed(p) ==
    /\ p.pc = "poll"
    /\ polls' = Without(polls, p)
    /\ UNCHANGED <<repoPath, statusData, polling, lastStatusRef, isUpdatingRef,
                   fileRefreshTrigger, updates, setRepos, calls>>
    /\ UNCHANGED <<pdVars, psVars, dvVars, gcVars, sfVars, chatVars, stVars>>

\* The POST /set-repo of poll() answers (App.jsx:147-148, 158).
ReinitOk(p) ==
    /\ p.pc = "reinit"
    /\ polls' = Without(polls, p)
    /\ UNCHANGED <<repoPath, statusData, polling, lastStatusRef, isUpdatingRef,
                   fileRefreshTrigger, updates, setRepos, calls>>
    /\ UNCHANGED <<pdVars, psVars, dvVars, gcVars, sfVars, chatVars, stVars>>

\* The POST /set-repo of poll() fails (App.jsx:149-152, 158).
ReinitFailed(p) ==
    /\ p.pc = "reinit"
    /\ Render(repoPath, FALSE, Without(polls, p))
    /\ UNCHANGED <<statusData, lastStatusRef, isUpdatingRef, fileRefreshTrigger,
                   updates, setRepos, calls>>
    /\ UNCHANGED <<pdVars, psVars, dvVars, gcVars, sfVars, chatVars, stVars>>

AppNext ==
    \/ \E path \in Repos : SetRepoCall(path)
    \/ \E c \in BagToSet(setRepos) : SetRepoOk(c)
    \/ \E c \in BagToSet(setRepos) : SetRepoFailed(c)
    \/ ResetRepo
    \/ \E force \in BOOLEAN : UpdateCall(force)
    \/ \E u \in BagToSet(updates) : \E res \in UpdatePayloads : UpdateDone(u, res)
    \/ \E u \in BagToSet(updates) : UpdateFailed(u)
    \/ PollTick
    \/ \E p \in BagToSet(polls) : \E res \in Payloads : PollDone(p, res)
    \/ \E p \in BagToSet(polls) : PollFailed(p)
    \/ \E p \in BagToSet(polls) : ReinitOk(p)
    \/ \E p \in BagToSet(polls) : ReinitFailed(p)

InitApp == PdIdle /\ PsIdle /\ DvInit /\ AppInit /\ GcIdle /\ SfIdle /\ ChatInit /\ StInit

SpecApp == InitApp /\ [][AppNext]_vars

\* polling is true only with a repoPath.
AppTypeOK ==
    /\ polling => repoPath # ""
    /\ \A c \in BagToSet(setRepos) : ~c.polling

(***************************************************************************)
(* Properties of the App.                                                  *)
(***************************************************************************)

\* A poll response with no error field and a status.
ValidPoll(res) == res.error = "" /\ res.status # Null

\* A valid poll response that is to replace the status shown.
PollQualifies(res) ==
    /\ ValidPoll(res)
    /\ \/ Some(Trimmed(res.status)) # lastStatusRef
       \/ res.has_changed
       \/ lastStatusRef = Null

\* A step in which a request ends without a response, or one is sent.
NoResponseStep ==
    \/ \E u \in BagToSet(updates) : UpdateFailed(u)
    \/ \E p \in BagToSet(polls) : PollFailed(p) \/ ReinitOk(p) \/ ReinitFailed(p)
    \/ \E force \in BOOLEAN : UpdateCall(force)
    \/ PollTick

\* C16: with a poll and a forced update in flight together, in whichever
\* order their responses are processed, each qualifying response (any
\* response to a forced update, a poll response that replaces the status)
\* sets statusData to its payload and no other response changes it: the last
\* one processed wins.
C16_LastProcessedWins ==
    [][/\ updates' # updates =>
              \A u \in BagToSet(updates) : \A res \in UpdatePayloads :
                  UpdateDone(u, res) =>
                      statusData' = IF u.force \/ res.has_changed THEN Some(res)
                                    ELSE statusData
       /\ polls' # polls =>
              \A p \in BagToSet(polls) : \A res \in Payloads :
                  PollDone(p, res) =>
                      statusData' = IF PollQualifies(res) THEN Some(res) ELSE statusData
       /\ statusData' # statusData => ~NoResponseStep]_vars

\* A poll and a forced update are in flight together, a response shown.
C16_Witness ==
    /\ statusData # Null
    /\ \E p \in BagToSet(polls) : p.pc = "poll"
    /\ \E u \in BagToSet(updates) : u.force /\ u.then = Null

\* C17: the response of a poll made for a repository that is no longer the
\* current one (reset or replaced since) changes neither statusData nor
\* lastStatusRef nor the file-refresh trigger.
C17_StalePollIgnored ==
    [][\A p \in BagToSet(polls) : \A res \in Payloads :
          p.repo # repoPath /\ PollDone(p, res) =>
              UNCHANGED <<statusData, lastStatusRef, fileRefreshTrigger>>]_vars

C19_PollUpdateRule ==
    [][polls' # polls =>
          \A p \in BagToSet(polls) : \A res \in Payloads :
              ValidPoll(res) /\ PollDone(p, res) =>
                  IF \/ Some(Trimmed(res.status)) # lastStatusRef
                     \/ res.has_changed
                     \/ lastStatusRef = Null
                  THEN /\ statusData' = Some(res)
                       /\ lastStatusRef' = Some(Trimmed(res.status))
                  ELSE UNCHANGED <<statusData, lastStatusRef>>]_vars

\* A poll response with files_changed has been processed and is shown, its
\* status trimmed in lastStatusRef.
C19_Witness ==
    /\ fileRefreshTrigger = 1
    /\ statusData = Some(Payload(Some("M  a.txt\n"), FALSE, TRUE, ""))
    /\ lastStatusRef = Some("M  a.txt")

\* How many poll requests are waiting for POST /poll.
PollCount ==
    LET waiting == {p \in BagToSet(polls) : p.pc = "poll"}
    IN  BagCardinality([p \in waiting |-> polls[p]])

\* A setRepo whose POST /set-repo succeeded reaches its end.
SetRepoEnds ==
    \E u \in BagToSet(updates) :
        /\ u.then # Null
        /\ UpdateFailed(u) \/ \E res \in UpdatePayloads : UpdateDone(u, res)

MaxChoices == 2

Branches == {"main", "dev", "fix"}

\* performBranchSwitch up to its await (unnamed/part_001:163-172). confirmed
\* records whether handleConfirmSwitch made the call.
PerformBranchSwitch(branchName, stashChanges, bringChanges, confirmed) ==
    /\ switchingBranch' = TRUE
    /\ gcError' = Null
    /\ switchBranchDialog' = Null
    /\ switches' = With(switches, [branch |-> branchName, stash_changes |-> stashChanges,
                                   bring_changes |-> bringChanges, confirmed |-> confirmed])

\* handleSwitchBranch up to its await (unnamed/part_001:142-149).
ChooseBranch(branchName) ==
    /\ choices < MaxChoices
    /\ choices' = choices + 1
    /\ checks' = IF branchName = currentBranch THEN checks
                 ELSE With(checks, [branchName |-> branchName])
    /\ UNCHANGED <<currentBranch, dirty, switchBranchDialog, changeOption,
                   switchingBranch, gcError, switches>>
    /\ UNCHANGED <<pdVars, psVars, dvVars, appVars, sfVars, chatVars, stVars>>

\* What handleSwitchBranch does with hasChanges (unnamed/part_001:151-160).
AfterCheck(c, hasChanges) ==
    /\ checks' = Without(checks, c)
    /\ IF hasChanges
       THEN /\ switchBranchDialog' = Some(c.branchName)
            /\ changeOption' = "stash"
            /\ UNCHANGED <<switchingBranch, gcError, switches>>
       ELSE /\ PerformBranchSwitch(c.branchName, FALSE, FALSE, FALSE)
            /\ UNCHANGED changeOption
    /\ UNCHANGED <<currentBranch, dirty, choices>>
    /\ UNCHANGED <<pdVars, psVars, dvVars, appVars, sfVars, chatVars, stVars>>

\* GET /has-changes answers (unnamed/part_001:134-135).
CheckAnswered(c) == AfterCheck(c, dirty)

\* GET /has-changes fails (unnamed/part_001:136-139): return false.
CheckFailed(c) == AfterCheck(c, FALSE)

\* The radio buttons of the dialog (unnamed/part_001:715, 742).
SetChangeOption(option) ==
    /\ switchBranchDialog # Null
    /\ changeOption' = option
    /\ UNCHANGED <<currentBranch, dirty, switchBranchDialog, switchingBranch, gcError,
                   checks, switches, choices>>
    /\ UNCHANGED <<pdVars, psVars, dvVars, appVars, sfVars, chatVars, stVars>>

\* The Cancel button of the dialog (unnamed/part_001:681, 763).
CancelSwitch ==
    /\ switchBranchDialog # Null
    /\ switchBranchDialog' = Null
    /\ UNCHANGED <<currentBranch, dirty, changeOption, switchingBranch, gcError,
                   checks, switches, choices>>
    /\ UNCHANGED <<pdVars, psVars, dvVars, appVars, sfVars, chatVars, stVars>>

\* handleConfirmSwitch (unnamed/part_001:185-191), its button disabled while
\* switchingBranch (unnamed/part_001:776-777).
ConfirmSwitch ==
    /\ switchBranchDialog # Null
    /\ ~switchingBranch
    /\ PerformBranchSwitch(switchBranchDialog[1], changeOption = "stash",
                           changeOption = "bring", TRUE)
    /\ UNCHANGED <<currentBranch, dirty, changeOption, checks, choices>>
    /\ UNCHANGED <<pdVars, psVars, dvVars, appVars, sfVars, chatVars, stVars>>

\* POST /branch/switch answers (unnamed/part_001:173-178, 181-183).
SwitchOk(r) ==
    /\ currentBranch' = r.branch
    /\ switchingBranch' = FALSE
    /\ switches' = Without(switches, r)
    /\ UNCHANGED <<dirty, switchBranchDialog, changeOption, gcError, checks, choices>>
    /\ UNCHANGED <<pdVars, psVars, dvVars, appVars, sfVars, chatVars, stVars>>

\* POST /branch/switch fails (unnamed/part_001:179-183).
SwitchFailed(r) ==
    /\ gcError' = Some("Failed to switch to branch '" \o r.branch \o "'")
    /\ switchingBranch' = FALSE
    /\ switches' = Without(switches, r)
    /\ UNCHANGED <<currentBranch, dirty, switchBranchDialog, changeOption, checks, choices>>
    /\ UNCHANGED <<pdVars, psVars, dvVars, appVars, sfVars, chatVars, stVars>>

GcNext ==
    \/ \E b \in Branches : ChooseBranch(b)
    \/ \E c \in BagToSet(checks) : CheckAnswered(c)
    \/ \E c \in BagToSet(checks) : CheckFailed(c)
    \/ \E option \in {"stash", "bring"} : SetChangeOption(option)
    \/ CancelSwitch
    \/ ConfirmSwitch
    \/ \E r \in BagToSet(switches) : SwitchOk(r)
    \/ \E r \in BagToSet(switches) : SwitchFailed(r)

InitGitControls == PdIdle /\ PsIdle /\ DvInit /\ AppInit /\ GcInit /\ SfIdle /\ ChatInit /\ StInit

SpecGitControls == InitGitControls /\ [][GcNext]_vars

\* Every POST /branch/switch in flight carries flags that are not both true:
\* both false when sent without the dialog, exactly one true when sent from
\* the confirmed dialog.
SwitchFlags ==
    \A r \in BagToSet(switches) :
        /\ ~(r.stash_changes /\ r.bring_changes)
        /\ ~r.confirmed => ~r.stash_changes /\ ~r.bring_changes
        /\ r.confirmed => r.stash_changes \/ r.bring_changes

\* C22: with uncommitted changes in the repository no POST /branch/switch is
\* sent before the user confirms the dialog, and the flags of every request
\* are never both true: both false without detected changes, exactly one
\* true from the confirmed dialog.
C22_SwitchAfterConfirm ==
    /\ \A r \in BagToSet(switches) : dirty => r.confirmed
    /\ SwitchFlags

\* ---------------------------------------------------------------------
\* The StatusFeed component: selection, staging and its effects
\* (StatusFeed.jsx:6-334). filterText is held at '', so filteredFiles is
\* files (StatusFeed.jsx:36-38).
\* ---------------------------------------------------------------------

MaxBatches == 2

\* The status texts the parent passes as data.status.
SfStatuses == {
    "",
    " M a\n M b\n M c",
    "M  a\n M b\nA  c",
    " M a\n M c",
    "M  b" }

\* const files = parseStatus(data.status) (StatusFeed.jsx:35)
FilesOf == [t \in SfStatuses |-> ParseStatus(t)]

SfFiles == FilesOf[sfStatus]

\* new Set(files.map(f => f.path)) (StatusFeed.jsx:53)
PathsOf(fs) == {fs[k].path : k \in 1..Len(fs)}

\* The staged-files effect's newStaged (StatusFeed.jsx:42-48)
StagedIn(fs) == {fs[k].path : k \in {n \in 1..Len(fs) : fs[n].isStaged}}

\* set.has(path) on a Set kept in insertion order
Has(set, path) == \E k \in 1..Len(set) : set[k] = path

Elements(set) == {set[k] : k \in 1..Len(set)}

\* StatusFeed after its mount: both effects have run on the first status
\* (StatusFeed.jsx:7-15, 41-71).
SfInit ==
    /\ sfStatus \in SfStatuses /\ selectedFiles = <<>> /\ selectionAnchor = Null
    /\ contextMenu = Null /\ stagedFiles = StagedIn(FilesOf[sfStatus])
    /\ sfEffects = "none" /\ sfRender = TRUE
    /\ batches = EmptyBag /\ refreshes = 0 /\ sfCalls = 0

\* The parent renders StatusFeed with another status text; the effects
\* keyed on data.status and on files are both due (StatusFeed.jsx:35, 41-71).
StatusChange(t) ==
    /\ sfEffects = "none"
    /\ t # sfStatus
    /\ sfStatus' = t
    /\ sfEffects' = "both"
    /\ sfRender' = FALSE
    /\ UNCHANGED <<selectedFiles, selectionAnchor, contextMenu, stagedFiles, batches, refreshes, sfCalls>>
    /\ UNCHANGED <<pdVars, psVars, dvVars, appVars, gcVars, chatVars, stVars>>

\* A scheduled re-render: files is a new array, so the effect keyed on
\* [files] is due again, the one keyed on [data.status] is not
\* (StatusFeed.jsx:35, 49, 71).
Rerender ==
    /\ sfEffects = "none"
    /\ sfRender
    /\ sfRender' = FALSE
    /\ sfEffects' = "cleanup"
    /\ UNCHANGED <<sfStatus, selectedFiles, selectionAnchor, contextMenu, stagedFiles, batches, refreshes, sfCalls>>
    /\ UNCHANGED <<pdVars, psVars, dvVars, appVars, gcVars, chatVars, stVars>>

CleanedToNothing(prev, filePaths) == <<>>

\* The updater of the cleanup effect (StatusFeed.jsx:54-62)
Cleaned(prev, filePaths) == SelectSeq(prev, LAMBDA path : path \in filePaths)

\* The anchor's updater of the cleanup effect (StatusFeed.jsx:64-70)
CleanedAnchor(prev, fs) ==
    IF prev # Null /\ prev[1] # "" /\ prev[1] \notin PathsOf(fs)
    THEN IF Len(fs) > 0 THEN Some(fs[1].path) ELSE Null
    ELSE prev

\* The effects of the last render run: the staged-files effect when
\* data.status changed, then the selection cleanup. The cleanup hands
\* setSelectedFiles a new Set on every run, which is never the object the
\* state holds, so a re-render is scheduled every time
\* (StatusFeed.jsx:41-71).
RunEffects ==
    /\ sfEffects # "none"
    /\ stagedFiles' = IF sfEffects = "both" THEN StagedIn(SfFiles) ELSE stagedFiles
    /\ selectedFiles' = Cleaned(selectedFiles, PathsOf(SfFiles))
    /\ selectionAnchor' = CleanedAnchor(selectionAnchor, SfFiles)
    /\ sfRender' = TRUE
    /\ sfEffects' = "none"
    /\ UNCHANGED <<sfStatus, contextMenu, batches, refreshes, sfCalls>>
    /\ UNCHANGED <<pdVars, psVars, dvVars, appVars, gcVars, chatVars, stVars>>

\* filteredFiles.slice(start, end + 1).map(f => f.path), 1-based
\* (StatusFeed.jsx:294-296)
RangeFiles(fs, m, n) ==
    LET start == IF m < n THEN m ELSE n
        end == IF m < n THEN n ELSE m
    IN  [k \in 1..(end - start + 1) |-> fs[start + k - 1].path]

\* filteredFiles.findIndex(f => f.path === path), 1-based, 0 for -1
IndexOfPath(fs, path) ==
    IF \E k \in 1..Len(fs) : fs[k].path = path
    THEN CHOOSE k \in 1..Len(fs) :
            fs[k].path = path /\ \A n \in 1..(k - 1) : fs[n].path # path
    ELSE 0

\* A click on the row of files[index] (StatusFeed.jsx:281-334)
handleFileClick(index, isCtrlOrCmd, isShift) ==
    LET path == SfFiles[index].path
        anchorIndex == IndexOfPath(SfFiles, selectionAnchor[1])
        wasSelected == Has(selectedFiles, path)
        removed == SelectSeq(selectedFiles, LAMBDA q : q # path)
    IN
    /\ sfEffects = "none"
    /\ index \in 1..Len(SfFiles)
    /\ IF isShift /\ selectionAnchor # Null
       THEN IF anchorIndex # 0
            THEN /\ selectedFiles' = RangeFiles(SfFiles, anchorIndex, index)
                 /\ sfRender' = TRUE
                 /\ UNCHANGED selectionAnchor
            ELSE UNCHANGED <<selectedFiles, selectionAnchor, sfRender>>
       ELSE IF isCtrlOrCmd
       THEN /\ selectedFiles' = IF wasSelected THEN removed ELSE Append(selectedFiles, path)
            /\ selectionAnchor' =
                 IF wasSelected
                 THEN IF selectionAnchor = Some(path) /\ Len(removed) > 0
                      THEN Some(removed[1])
                      ELSE IF Len(removed) = 0 THEN Null ELSE selectionAnchor
                 ELSE Some(path)
            /\ sfRender' = TRUE
       ELSE /\ selectedFiles' = <<path>>
            /\ selectionAnchor' = Some(path)
            /\ sfRender' = TRUE
    /\ UNCHANGED <<sfStatus, contextMenu, stagedFiles, sfEffects, batches, refreshes, sfCalls>>
    /\ UNCHANGED <<pdVars, psVars, dvVars, appVars, gcVars, chatVars, stVars>>

\* A right click on the row of files[index] (StatusFeed.jsx:151-165)
handleContextMenu(index) ==
    LET path == SfFiles[index].path IN
    /\ sfEffects = "none"
    /\ index \in 1..Len(SfFiles)
    /\ IF ~Has(selectedFiles, path)
       THEN selectedFiles' = <<path>> /\ selectionAnchor' = Some(path)
       ELSE UNCHANGED <<selectedFiles, selectionAnchor>>
    /\ contextMenu' = Some(path)
    /\ sfRender' = TRUE
    /\ UNCHANGED <<sfStatus, stagedFiles, sfEffects, batches, refreshes, sfCalls>>
    /\ UNCHANGED <<pdVars, psVars, dvVars, appVars, gcVars, chatVars, stVars>>

\* A mouse press outside the open menu (StatusFeed.jsx:262-276)
handleClickOutside ==
    /\ sfEffects = "none"
    /\ contextMenu # Null
    /\ contextMenu' = Null
    /\ sfRender' = TRUE
    /\ UNCHANGED <<sfStatus, selectedFiles, selectionAnchor, stagedFiles, sfEffects, batches, refreshes, sfCalls>>
    /\ UNCHANGED <<pdVars, psVars, dvVars, appVars, gcVars, chatVars, stVars>>

\* stageFiles / unstageFiles up to the await: one POST per path
\* (StatusFeed.jsx:185-190, 206-211)
StartBatch(op, filePaths) ==
    /\ sfCalls < MaxBatches
    /\ sfCalls' = sfCalls + 1
    /\ batches' = With(batches, [op |-> op, paths |-> filePaths, pending |-> filePaths,
                                 ok |-> {}, rejected |-> FALSE])

\* A click on the checkbox of files[index] (StatusFeed.jsx:227-248)
handleToggleStage(index) ==
    LET path == SfFiles[index].path
        filesToOperate == IF Has(selectedFiles, path) THEN Elements(selectedFiles) ELSE {path}
        isStaged == path \in stagedFiles
    IN
    /\ sfEffects = "none"
    /\ index \in 1..Len(SfFiles)
    /\ StartBatch(IF isStaged THEN "unstage" ELSE "stage", filesToOperate)
    /\ UNCHANGED <<sfStatus, selectedFiles, selectionAnchor, contextMenu, stagedFiles, sfEffects, sfRender, refreshes>>
    /\ UNCHANGED <<pdVars, psVars, dvVars, appVars, gcVars, chatVars, stVars>>

\* A click on the select-all checkbox with files listed
\* (StatusFeed.jsx:250-260, 186, 207)
handleSelectAll ==
    LET allStaged == \A k \in 1..Len(SfFiles) : SfFiles[k].path \in stagedFiles IN
    /\ sfEffects = "none"
    /\ Len(SfFiles) > 0
    /\ StartBatch(IF allStaged THEN "unstage" ELSE "stage", PathsOf(SfFiles))
    /\ UNCHANGED <<sfStatus, selectedFiles, selectionAnchor, contextMenu, stagedFiles, sfEffects, sfRender, refreshes>>
    /\ UNCHANGED <<pdVars, psVars, dvVars, appVars, gcVars, chatVars, stVars>>

\* The batch b with the request for path answered
Answered(b, path, succeeded) ==
    [b EXCEPT !.pending = @ \ {path},
              !.ok = IF succeeded THEN @ \cup {path} ELSE @,
              !.rejected = @ \/ ~succeeded]

BatchLeft(b, nb) ==
    IF nb.pending = {} THEN Without(batches, b) ELSE With(Without(batches, b), nb)

ResolvesIgnoringFailures(b, path) == b.pending = {path}

\* Promise.all resolves with the last answer when no request failed
\* (StatusFeed.jsx:188-190, 209-211)
Resolves(b, path) == ~b.rejected /\ b.pending = {path}

\* The updaters after the await (StatusFeed.jsx:191-195, 212-216)
StagedAfter(b, prev) == IF b.op = "stage" THEN prev \cup b.paths ELSE prev \ b.paths

\* A POST of the batch b succeeds; when it is the last one and none
\* failed, the code after the await runs (StatusFeed.jsx:188-198, 209-219).
StageOk(b, path) ==
    /\ b \in BagToSet(batches)
    /\ path \in b.pending
    /\ batches' = BatchLeft(b, Answered(b, path, TRUE))
    /\ IF Resolves(b, path)
       THEN /\ stagedFiles' = StagedAfter(b, stagedFiles)
            /\ refreshes' = refreshes + 1
            /\ sfRender' = TRUE
       ELSE UNCHANGED <<stagedFiles, refreshes, sfRender>>
    /\ UNCHANGED <<sfStatus, selectedFiles, selectionAnchor, contextMenu, sfEffects, sfCalls>>
    /\ UNCHANGED <<pdVars, psVars, dvVars, appVars, gcVars, chatVars, stVars>>

\* A POST of the batch b fails: Promise.all rejects on the first failure
\* and the catch only reports it (StatusFeed.jsx:199-202, 220-223).
StageFailed(b, path) ==
    /\ b \in BagToSet(batches)
    /\ path \in b.pending
    /\ batches' = BatchLeft(b, Answered(b, path, FALSE))
    /\ UNCHANGED <<sfStatus, selectedFiles, selectionAnchor, contextMenu, stagedFiles, sfEffects, sfRender, refreshes, sfCalls>>
    /\ UNCHANGED <<pdVars, psVars, dvVars, appVars, gcVars, chatVars, stVars>>

SfPaths == {"a", "b", "c"}

\* StatusFeed under status changes, renders, clicks and context menus.
SfNext ==
    \/ \E t \in SfStatuses : StatusChange(t)
    \/ Rerender
    \/ RunEffects
    \/ \E index \in 1..3, isCtrlOrCmd \in BOOLEAN, isShift \in BOOLEAN :
          handleFileClick(index, isCtrlOrCmd, isShift)
    \/ \E index \in 1..3 : handleContextMenu(index)
    \/ handleClickOutside

InitStatusFeed == PdIdle /\ PsIdle /\ DvInit /\ AppInit /\ GcIdle /\ SfInit /\ ChatInit /\ StInit

SpecStatusFeed == InitStatusFeed /\ [][SfNext]_vars

\* StatusFeed under clicks and batches of stage and unstage requests.
StageNext ==
    \/ \E index \in 1..3, isCtrlOrCmd \in BOOLEAN, isShift \in BOOLEAN :
          handleFileClick(index, isCtrlOrCmd, isShift)
    \/ \E index \in 1..3 : handleToggleStage(index)
    \/ handleSelectAll
    \/ \E b \in BagToSet(batches), path \in SfPaths : StageOk(b, path)
    \/ \E b \in BagToSet(batches), path \in SfPaths : StageFailed(b, path)

SpecStaging == InitStatusFeed /\ [][StageNext]_vars

\* C23: a batch sends one request per file; stagedFiles is updated (every
\* path of the batch added, or every path removed) and the refresh
\* callback is called only when the last request of a batch succeeds with
\* none failed before it; a failed request, and every answer of a batch
\* that has a failed request, leaves stagedFiles as it was and calls no
\* refresh.
C23_BatchAllOrNothing ==
    [][batches' # batches =>
        /\ \A b \in BagToSet(batches') \ BagToSet(batches) :
              b.ok = {} /\ ~b.rejected => b.pending = b.paths /\ b.paths # {}
        /\ \A b \in BagToSet(batches), path \in SfPaths :
              /\ StageFailed(b, path) =>
                    stagedFiles' = stagedFiles /\ refreshes' = refreshes
              /\ StageOk(b, path) /\ (b.rejected \/ b.pending # {path}) =>
                    stagedFiles' = stagedFiles /\ refreshes' = refreshes
              /\ StageOk(b, path) /\ ~b.rejected /\ b.pending = {path} =>
                    /\ b.ok \cup {path} = b.paths
                    /\ stagedFiles' = IF b.op = "stage" THEN stagedFiles \cup b.paths
                                      ELSE stagedFiles \ b.paths
                    /\ refreshes' = refreshes + 1
    ]_vars

\* A batch has a failed request while another request of it has succeeded
\* and a third is still out.
C23_Witness ==
    \E b \in BagToSet(batches) : b.rejected /\ b.ok # {} /\ b.pending # {}

\* C27: the selection-cleanup effect leaves selected exactly the selected
\* paths that occur in the parsed file list, and once the effects have run
\* the selection holds only paths of the file list.
C27_CleanupKeepsPresent ==
    /\ [](sfEffects = "none" => Elements(selectedFiles) \subseteq PathsOf(SfFiles))
    /\ [][RunEffects =>
            Elements(selectedFiles') = Elements(selectedFiles) \cap PathsOf(SfFiles')]_vars

\* After a status change and the cleanup, one of two selected paths is
\* left selected: the other is no longer listed.
C27_Witness ==
    /\ sfEffects = "none" /\ sfStatus = " M a\n M c"
    /\ selectedFiles = <<"a">> /\ selectionAnchor = Some("a")

\* C28: once the effects of a render have run, the selection anchor is
\* null or the path of a selected file.
C28_AnchorSelected ==
    sfEffects = "none" =>
        selectionAnchor = Null \/ Has(selectedFiles, selectionAnchor[1])

\* C29: a run of the cleanup effect that changes neither the selection nor
\* the anchor nor the staged files schedules no re-render.
C29_CleanupSettles ==
    [][RunEffects /\ Elements(selectedFiles') = Elements(selectedFiles)
                  /\ selectionAnchor' = selectionAnchor
                  /\ stagedFiles' = stagedFiles
          => ~sfRender']_vars

\* C24: when a file is selected and no GET /file and no GET /diff of the
\* viewer is outstanding, the content the viewer holds is one GET /file
\* gives for the selected path ('' when it failed) and the diff is one
\* GET /diff gives for it.
C24_ViewerHoldsCurrent ==
    filePath # "" /\ loads = <<>> =>
        /\ fileContent \in FileBodies(filePath) \cup {""}
        /\ diff \in DiffBodies(filePath) \cup {""}

\* ---------------------------------------------------------------------
\* The ChatInterface component with refreshChat (README.md:466-538).
\* ---------------------------------------------------------------------

MaxSends == 3

\* What the user types into the input (README.md:617)
ChatInputs == {"", "  ", "hi", " undo "}

\* res.data of POST /chat: the response text ("" when absent) and the dsl
ChatResponses == [response : {"", "Done."}, dsl : {Null, Some("commit")}]

\* err.response?.data?.error || err.message of a failed POST /chat
ChatErrors == {"Network Error"}

initialMessage ==
    [role |-> "assistant", dsl |-> Null,
     content |-> "Hello! I am your Gemini Git Agent. How can I help you today?"]

\* No aborted request waits for its rejection to be handled. abort()
\* rejects the request's promise at once and the handlers of the
\* rejection run as microtasks, before the next event is delivered.
NoContinuation == \A r \in chats : ~r.aborted

\* onChange of the input, which is disabled while loading
\* (README.md:617-621)
TypeInput(text) ==
    /\ NoContinuation
    /\ ~chatLoading
    /\ text # input
    /\ input' = text
    /\ UNCHANGED <<messages, chatLoading, abortControllerRef, chats, sends>>
    /\ UNCHANGED <<pdVars, psVars, dvVars, appVars, gcVars, sfVars, stVars>>

CanSendBlank == ~chatLoading

\* The negation of sendMessage's early return (README.md:494)
CanSend == Trim(input) # "" /\ ~chatLoading

\* sendMessage up to the await (README.md:492-507)
sendMessage ==
    /\ NoContinuation
    /\ CanSend
    /\ sends < MaxSends
    /\ sends' = sends + 1
    /\ messages' = Append(messages, [role |-> "user", dsl |-> Null, content |-> input])
    /\ input' = ""
    /\ chatLoading' = TRUE
    /\ abortControllerRef' = Some(sends + 1)
    /\ chats' = chats \cup {[id |-> sends + 1, aborted |-> FALSE, refreshed |-> FALSE]}
    /\ UNCHANGED <<pdVars, psVars, dvVars, appVars, gcVars, sfVars, stVars>>

\* POST /chat answers (README.md:509-521, 531-537). An aborted request is
\* never answered: its promise is already rejected.
ChatAnswered(r, res) ==
    /\ r \in chats
    /\ ~r.aborted
    /\ messages' = Append(messages,
          [role |-> "assistant", dsl |-> res.dsl,
           content |-> IF res.response # "" THEN res.response
                       ELSE "I didn't get a response."])
    /\ chatLoading' = FALSE
    /\ abortControllerRef' = Null
    /\ chats' = chats \ {r}
    /\ UNCHANGED <<input, sends>>
    /\ UNCHANGED <<pdVars, psVars, dvVars, appVars, gcVars, sfVars, stVars>>

\* POST /chat fails (README.md:523-537)
ChatFailed(r, errorMessage) ==
    /\ r \in chats
    /\ ~r.aborted
    /\ messages' = Append(messages,
          [role |-> "assistant", dsl |-> Null, content |-> "Error: " \o errorMessage])
    /\ chatLoading' = FALSE
    /\ abortControllerRef' = Null
    /\ chats' = chats \ {r}
    /\ UNCHANGED <<input, sends>>
    /\ UNCHANGED <<pdVars, psVars, dvVars, appVars, gcVars, sfVars, stVars>>

\* The rejection of an aborted request is handled: the catch sets loading
\* false and returns, the finally clears the ref (README.md:523-537).
ChatCanceled(r) ==
    /\ r \in chats
    /\ r.aborted
    /\ chatLoading' = FALSE
    /\ abortControllerRef' = Null
    /\ chats' = chats \ {r}
    /\ UNCHANGED <<messages, input, sends>>
    /\ UNCHANGED <<pdVars, psVars, dvVars, appVars, gcVars, sfVars, stVars>>

AbortsNothing(ref, r) == FALSE

\* abortControllerRef.current.abort() reaches the request made with that
\* controller (README.md:482-485, 501-507)
Aborts(ref, r) == ref = Some(r.id)

\* refreshChat (README.md:480-490); refreshed marks the requests that were
\* issued before it.
refreshChat ==
    /\ NoContinuation
    /\ chats' = {[r EXCEPT !.aborted = @ \/ Aborts(abortControllerRef, r),
                           !.refreshed = TRUE] : r \in chats}
    /\ abortControllerRef' = Null
    /\ messages' = <<initialMessage>>
    /\ input' = ""
    /\ chatLoading' = FALSE
    /\ UNCHANGED sends
    /\ UNCHANGED <<pdVars, psVars, dvVars, appVars, gcVars, sfVars, stVars>>

ChatNext ==
    \/ \E text \in ChatInputs : TypeInput(text)
    \/ sendMessage
    \/ \E r \in chats, res \in ChatResponses : ChatAnswered(r, res)
    \/ \E r \in chats, errorMessage \in ChatErrors : ChatFailed(r, errorMessage)
    \/ \E r \in chats : ChatCanceled(r)
    \/ refreshChat

InitChat == PdIdle /\ PsIdle /\ DvInit /\ AppInit /\ GcIdle /\ SfIdle /\ ChatInit /\ StInit

SpecChat == InitChat /\ [][ChatNext]_vars

\* The requests that can still be answered
Outstanding == {r \in chats : ~r.aborted}

C26_RefreshCancels ==
    /\ [](\A r \in chats : r.refreshed => r.aborted)
    /\ [][/\ refreshChat => messages' = <<initialMessage>> /\ ~chatLoading'
          /\ \A r \in chats : r.refreshed /\ r \notin chats' => messages' = messages]_vars

\* A second request was sent after a refresh cancelled the first, and a
\* second refresh has cancelled it too.
C26_Witness ==
    /\ messages = <<initialMessage>> /\ ~chatLoading
    /\ \E r \in chats : r.id = 2 /\ r.aborted /\ r.refreshed

\* ---------------------------------------------------------------------
\* The Settings component: handleTestAndSave (Settings.jsx:58-170).
\* githubToken and githubPath are held empty, so their requests are not
\* sent (Settings.jsx:103-108).
\* ---------------------------------------------------------------------

MaxRuns == 2

\* What the user types as the key (Settings.jsx:442)
Keys == {"", "  ", " k1 "}

\* testResponse.data: status and the texts are "" when absent
TestResponses ==
    [status : {"", "rate_limited", "valid"}, valid : BOOLEAN,
     error : {"", "bad key"}, warning : {"", "quota"}]

\* A failed request: the HTTP status (0 when there is no response), the
\* fields of err.response.data ("" when absent) and err.message
Failures ==
    [statusCode : {0, 400, 401, 403, 429, 500},
     status : {"", "rate_limited", "invalid_key", "server_error"},
     error : {"", "x?key=k1"}, warning : {""}, message : {"Request failed"}]

Or(text, default) == IF text # "" THEN text ELSE default

RateLimitWarning ==
    "Gemini is rate-limiting this key. It may be valid, but you've hit the quota. The key will be saved."

\* errorMessage.split('?key=')[0] + '?key=[REDACTED]' when it has '?key='
\* (Settings.jsx:158-162)
Redacted(errorMessage) ==
    IF Includes(errorMessage, "?key=")
    THEN LET at == CHOOSE k \in 1..Len(errorMessage) :
                      /\ SubSeq(errorMessage, k, k + 4) = "?key="
                      /\ \A n \in 1..(k - 1) : SubSeq(errorMessage, n, n + 4) # "?key="
         IN  SubSeq(errorMessage, 1, at - 1) \o "?key=[REDACTED]"
    ELSE errorMessage

\* onChange of the key input, disabled while testing or saving
\* (Settings.jsx:440-447)
SetNewKey(key) ==
    /\ stPc = "idle"
    /\ ~(testing \/ saving)
    /\ key # newKey
    /\ newKey' = key
    /\ UNCHANGED <<testing, saving, stError, warning, success, stPc, testResult, saves, runs>>
    /\ UNCHANGED <<pdVars, psVars, dvVars, appVars, gcVars, sfVars, chatVars>>

\* handleTestAndSave up to the first await (Settings.jsx:58-83)
handleTestAndSave ==
    /\ stPc = "idle"
    /\ runs < MaxRuns
    /\ runs' = runs + 1
    /\ IF Trim(newKey) = ""
       THEN /\ stError' = "Please enter your Gemini API key"
            /\ warning' = ""
            /\ UNCHANGED <<testing, success, stPc, testResult>>
       ELSE IF testing \/ saving
       THEN UNCHANGED <<stError, warning, testing, success, stPc, testResult>>
       ELSE /\ testing' = TRUE
            /\ stError' = "" /\ warning' = "" /\ success' = ""
            /\ stPc' = "test"
            /\ testResult' = Null
    /\ UNCHANGED <<newKey, saving, saves>>
    /\ UNCHANGED <<pdVars, psVars, dvVars, appVars, gcVars, sfVars, chatVars>>

\* The finally block (Settings.jsx:165-168)
Finally == testing' = FALSE /\ saving' = FALSE /\ stPc' = "idle"

\* The test endpoint answers (Settings.jsx:85-102)
TestAnswered(res) ==
    /\ stPc = "test"
    /\ testResult' = Some([kind |-> "answered", statusCode |-> 200,
                           status |-> res.status, valid |-> res.valid])
    /\ IF res.status = "rate_limited"
       THEN /\ warning' = Or(res.warning, RateLimitWarning)
            /\ saving' = TRUE /\ saves' = saves + 1 /\ stPc' = "save"
            /\ UNCHANGED <<stError, testing>>
       ELSE IF ~res.valid
       THEN /\ stError' = Or(res.error, "API key validation failed")
            /\ Finally
            /\ UNCHANGED <<warning, saves>>
       ELSE /\ saving' = TRUE /\ saves' = saves + 1 /\ stPc' = "save"
            /\ UNCHANGED <<stError, warning, testing>>
    /\ UNCHANGED <<newKey, success, runs>>
    /\ UNCHANGED <<pdVars, psVars, dvVars, appVars, gcVars, sfVars, chatVars>>

AnyError(statusCode, status) == TRUE

\* The first test of the catch (Settings.jsx:126)
RateLimitedError(statusCode, status) == statusCode = 429 \/ status = "rate_limited"

\* The catch block for a failure of the test or of a save, and the finally
\* when it does not save (Settings.jsx:121-168)
Caught(err) ==
    IF RateLimitedError(err.statusCode, err.status)
    THEN /\ warning' = Or(err.warning, RateLimitWarning)
         /\ saving' = TRUE /\ saves' = saves + 1 /\ stPc' = "resave"
         /\ UNCHANGED <<stError, testing>>
    ELSE /\ stError' =
              IF err.statusCode = 401 \/ err.statusCode = 403 \/ err.status = "invalid_key"
              THEN Or(err.error, "This API key is invalid or unauthorized. Please check your key and try again.")
              ELSE IF err.statusCode >= 500 \/ err.status = "server_error"
              THEN Or(err.error, "Gemini service error. Please try again later.")
              ELSE Redacted(Or(err.error, err.message))
         /\ Finally
         /\ UNCHANGED <<warning, saves>>

\* The test request fails (Settings.jsx:121-168)
TestFailed(err) ==
    /\ stPc = "test"
    /\ testResult' = Some([kind |-> "failed", statusCode |-> err.statusCode,
                           status |-> err.status, valid |-> FALSE])
    /\ Caught(err)
    /\ UNCHANGED <<newKey, success, runs>>
    /\ UNCHANGED <<pdVars, psVars, dvVars, appVars, gcVars, sfVars, chatVars>>

\* POST /config/gemini-key answers; the model is saved next
\* (Settings.jsx:98-111)
SaveAnswered ==
    /\ stPc = "save"
    /\ stPc' = "model"
    /\ UNCHANGED <<newKey, testing, saving, stError, warning, success, testResult, saves, runs>>
    /\ UNCHANGED <<pdVars, psVars, dvVars, appVars, gcVars, sfVars, chatVars>>

\* POST /config/gemini-key or POST /config/gemini-model fails
\* (Settings.jsx:98-111, 121-168)
SaveFailed(err) ==
    /\ stPc \in {"save", "model"}
    /\ Caught(err)
    /\ UNCHANGED <<newKey, success, testResult, runs>>
    /\ UNCHANGED <<pdVars, psVars, dvVars, appVars, gcVars, sfVars, chatVars>>

\* The last save answers: the key is cleared and fetchStatus awaited
\* (Settings.jsx:113-118, 137-142)
Saved(text) ==
    /\ newKey' = "" /\ stError' = "" /\ warning' = "" /\ success' = text
    /\ stPc' = "fetch"
    /\ UNCHANGED <<testing, saving, testResult, saves, runs>>
    /\ UNCHANGED <<pdVars, psVars, dvVars, appVars, gcVars, sfVars, chatVars>>

ModelAnswered ==
    /\ stPc = "model"
    /\ Saved("API key saved and validated successfully!")

\* The save with skip_test answers (Settings.jsx:131-146)
ResaveAnswered ==
    /\ stPc = "resave"
    /\ Saved("API key saved (rate limited, but key appears valid).")

\* The save with skip_test fails (Settings.jsx:147-150, 165-168)
ResaveFailed ==
    /\ stPc = "resave"
    /\ stError' = "Failed to save API key. Please try again later."
    /\ warning' = ""
    /\ Finally
    /\ UNCHANGED <<newKey, success, testResult, saves, runs>>
    /\ UNCHANGED <<pdVars, psVars, dvVars, appVars, gcVars, sfVars, chatVars>>

\* fetchStatus returns, which it does on failure too, and the handler ends
\* (Settings.jsx:27-56, 118-120, 142-146, 165-168)
FetchDone ==
    /\ stPc = "fetch"
    /\ Finally
    /\ UNCHANGED <<newKey, stError, warning, success, testResult, saves, runs>>
    /\ UNCHANGED <<pdVars, psVars, dvVars, appVars, gcVars, sfVars, chatVars>>

StNext ==
    \/ \E key \in Keys : SetNewKey(key)
    \/ handleTestAndSave
    \/ \E res \in TestResponses : TestAnswered(res)
    \/ \E err \in Failures : TestFailed(err)
    \/ SaveAnswered
    \/ \E err \in Failures : SaveFailed(err)
    \/ ModelAnswered
    \/ ResaveAnswered
    \/ ResaveFailed
    \/ FetchDone

InitSettings == PdIdle /\ PsIdle /\ DvInit /\ AppInit /\ GcIdle /\ SfIdle /\ ChatInit /\ StInit

SpecSettings == InitSettings /\ [][StNext]_vars

\* The test answered that the key is rate-limited: status rate_limited, or
\* HTTP 429
TestRateLimited(t) == t.status = "rate_limited" \/ t.statusCode = 429

\* The test answered that the key is valid
TestValid(t) == t.kind = "answered" /\ t.valid

\* The test reported the key invalid, or failed with 401, 403 or a server
\* error, and was not rate-limited
TestRefused(t) ==
    /\ ~TestRateLimited(t)
    /\ \/ t.kind = "answered" /\ ~t.valid
       \/ t.kind = "failed" /\ (t.statusCode \in {401, 403} \/ t.statusCode >= 500)

\* C30: a save request is sent only in a run whose test answered valid or
\* rate-limited; the step in which the test reports the key invalid or
\* fails with 401, 403 or a server error (and is not rate-limited) sends no
\* save, shows an error and ends the handler with testing and saving
\* false, as they are whenever no handler runs.
C30_SaveOnlyAfterTest ==
    /\ [](stPc = "idle" => ~testing /\ ~saving)
    /\ [][/\ saves' # saves =>
                /\ testResult' # Null
                /\ TestValid(testResult'[1]) \/ TestRateLimited(testResult'[1])
          /\ stPc = "test" /\ stPc' # "test" /\ TestRefused(testResult'[1]) =>
                /\ saves' = saves /\ stError' # ""
                /\ stPc' = "idle" /\ ~testing' /\ ~saving']_vars

\* A run ended on a test that failed with 401 and no save was sent, after a
\* run that saved the key.
C30_Witness ==
    /\ stPc = "idle" /\ runs = 2 /\ saves = 1 /\ stError # ""
    /\ testResult # Null /\ testResult[1].kind = "failed" /\ testResult[1].statusCode = 401

====
